---- MODULE Spec2Model ----
(***************************************************************************)
(* The tiered cache of monocloud: RedisCache (an in-process Map in front   *)
(* of an Upstash Redis store).  The repository holds two versions of the   *)
(* class:                                                                  *)
(*   "lib" : src/lib/redis-cache.ts   (capability flags, probe)            *)
(*   "p9"  : src/unnamed/part_009     (manual JSON, no flags)              *)
(* Both are modelled; the variable impl says which one a behaviour runs.   *)
(* Every handler is cut at its awaits: one action per stretch of code      *)
(* between two suspension points.                                          *)
(***************************************************************************)
EXTENDS Integers, Sequences, FiniteSets, TLC

(***************************************************************************)
(* JavaScript values.  Every value is a record of one shape                *)
(*   [t : tag, c : sequence of characters, kids : sequence of values]      *)
(* t = "null" | "bool" | "num" | "str" | "arr" | "obj" | "pair"            *)
(* c is the literal's text (bool, num), the content (str), the key (pair). *)
(* An object is the sequence of its pairs, in insertion order.             *)
(***************************************************************************)
JNull == [t |-> "null", c |-> <<>>, kids |-> <<>>]
JBool(b) == [t |-> "bool", c |-> IF b THEN <<"t","r","u","e">> ELSE <<"f","a","l","s","e">>, kids |-> <<>>]
JNum(digits) == [t |-> "num", c |-> digits, kids |-> <<>>]
JStr(chars) == [t |-> "str", c |-> chars, kids |-> <<>>]
JArr(elems) == [t |-> "arr", c |-> <<>>, kids |-> elems]
JPair(key, v) == [t |-> "pair", c |-> key, kids |-> <<v>>]
JObj(pairs) == [t |-> "obj", c |-> <<>>, kids |-> pairs]

Digits == {"0","1","2","3","4","5","6","7","8","9"}

\* JSON.stringify, on the values above (no escapes: the model's strings hold
\* no quote and no backslash).
RECURSIVE JSONstringify(_)
RECURSIVE StringifyList(_)
StringifyList(vs) ==
  IF vs = <<>> THEN <<>>
  ELSE IF Len(vs) = 1 THEN JSONstringify(vs[1])
  ELSE JSONstringify(vs[1]) \o <<",">> \o StringifyList(Tail(vs))
JSONstringify(v) ==
  CASE v.t = "null" -> <<"n","u","l","l">>
    [] v.t = "bool" -> v.c
    [] v.t = "num"  -> v.c
    [] v.t = "str"  -> <<"\"">> \o v.c \o <<"\"">>
    [] v.t = "arr"  -> <<"[">> \o StringifyList(v.kids) \o <<"]">>
    [] v.t = "obj"  -> <<"{">> \o StringifyList(v.kids) \o <<"}">>
    [] v.t = "pair" -> <<"\"">> \o v.c \o <<"\"", ":">> \o JSONstringify(v.kids[1])

\* JSON.parse by recursive descent.  A parse step returns
\* [ok, v, rest]: the value read from the front of s and what is left.
ParseFail == [ok |-> FALSE, v |-> JNull, rest |-> <<>>]
ParseOk(v, rest) == [ok |-> TRUE, v |-> v, rest |-> rest]

StartsWith(s, p) == Len(s) >= Len(p) /\ SubSeq(s, 1, Len(p)) = p
Drop(s, n) == SubSeq(s, n + 1, Len(s))

RECURSIVE DigitRun(_)
DigitRun(s) == IF s # <<>> /\ s[1] \in Digits THEN 1 + DigitRun(Tail(s)) ELSE 0
RECURSIVE UntilQuote(_)
\* Number of characters before the closing quote, or -1 when there is none.
UntilQuote(s) ==
  IF s = <<>> THEN -1
  ELSE IF s[1] = "\"" THEN 0
  ELSE LET n == UntilQuote(Tail(s)) IN IF n < 0 THEN -1 ELSE n + 1

ParseString(s) ==
  IF s # <<>> /\ s[1] = "\""
  THEN LET n == UntilQuote(Tail(s))
       IN IF n < 0 THEN ParseFail
          ELSE ParseOk(JStr(SubSeq(s, 2, n + 1)), Drop(s, n + 2))
  ELSE ParseFail

RECURSIVE ParseValue(_)
RECURSIVE ParseElems(_, _)
RECURSIVE ParseMembers(_, _)
ParseElems(s, acc) ==
  LET r == ParseValue(s)
  IN IF ~r.ok THEN ParseFail
     ELSE IF r.rest # <<>> /\ r.rest[1] = "," THEN ParseElems(Tail(r.rest), Append(acc, r.v))
     ELSE IF r.rest # <<>> /\ r.rest[1] = "]" THEN ParseOk(JArr(Append(acc, r.v)), Tail(r.rest))
     ELSE ParseFail
ParseMembers(s, acc) ==
  LET k == ParseString(s)
  IN IF ~k.ok \/ k.rest = <<>> \/ k.rest[1] # ":" THEN ParseFail
     ELSE LET r == ParseValue(Tail(k.rest))
          IN IF ~r.ok THEN ParseFail
             ELSE IF r.rest # <<>> /\ r.rest[1] = ","
                  THEN ParseMembers(Tail(r.rest), Append(acc, JPair(k.v.c, r.v)))
             ELSE IF r.rest # <<>> /\ r.rest[1] = "}"
                  THEN ParseOk(JObj(Append(acc, JPair(k.v.c, r.v))), Tail(r.rest))
             ELSE ParseFail
ParseValue(s) ==
  IF s = <<>> THEN ParseFail
  ELSE IF StartsWith(s, <<"n","u","l","l">>) THEN ParseOk(JNull, Drop(s, 4))
  ELSE IF StartsWith(s, <<"t","r","u","e">>) THEN ParseOk(JBool(TRUE), Drop(s, 4))
  ELSE IF StartsWith(s, <<"f","a","l","s","e">>) THEN ParseOk(JBool(FALSE), Drop(s, 5))
  ELSE IF s[1] \in Digits
       THEN LET n == DigitRun(s)
            IN IF n > 1 /\ s[1] = "0" THEN ParseFail
               ELSE ParseOk(JNum(SubSeq(s, 1, n)), Drop(s, n))
  ELSE IF s[1] = "\"" THEN ParseString(s)
  ELSE IF s[1] = "["
       THEN IF Len(s) >= 2 /\ s[2] = "]" THEN ParseOk(JArr(<<>>), Drop(s, 2))
            ELSE ParseElems(Tail(s), <<>>)
  ELSE IF s[1] = "{"
       THEN IF Len(s) >= 2 /\ s[2] = "}" THEN ParseOk(JObj(<<>>), Drop(s, 2))
            ELSE ParseMembers(Tail(s), <<>>)
  ELSE ParseFail

\* JSON.parse(text): [ok |-> FALSE] stands for the SyntaxError it throws.
JSONparse(text) ==
  LET r == ParseValue(text)
  IN IF r.ok /\ r.rest = <<>> THEN r ELSE ParseFail

\* A value JSON.stringify throws on (a circular structure).
JCyclic == [t |-> "cyclic", c |-> <<>>, kids |-> <<>>]
\* No value: a Map miss, an argument or a result that is not there.
Absent == [t |-> "absent", c |-> <<>>, kids |-> <<>>]

\* JavaScript truthiness, as tested by "if (data)".
Truthy(v) ==
  CASE v.t \in {"null", "absent"} -> FALSE
    [] v.t = "bool" -> v = JBool(TRUE)
    [] v.t = "num"  -> v # JNum(<<"0">>)
    [] v.t = "str"  -> v.c # <<>>
    [] OTHER -> TRUE

(***************************************************************************)
(* Bounds of the model.                                                    *)
(***************************************************************************)
TickStep == 60000
MaxTicks == 2
TtlShort == 30

\* The values callers store.
VNum7 == JNum(<<"7">>)
VZero == JNum(<<"0">>)
VStr7 == JStr(<<"7">>)
VStrTrue == JStr(<<"t","r","u","e">>)
VStrHi == JStr(<<"h","i">>)
VObj == JObj(<<JPair(<<"a">>, JArr(<<JNum(<<"1">>), JStr(<<"7">>)>>)),
               JPair(<<"b">>, JObj(<<JPair(<<"c">>, JBool(TRUE))>>))>>)
AllValues == {VNum7, VZero, VStr7, VStrTrue, VStrHi, VObj}

Keys == {"a"}
\* The empty key, which no check of the class keeps out of the Map.
EmptyKey == ""
MapKeys == Keys \cup {EmptyKey}
\* The key a caller may choose whose full key is the probe's write sentinel.
SentinelName == "_connection_test_write"
MapDomain == MapKeys \cup {SentinelName}
TaskIds == {0, 1, 2}

(***************************************************************************)
(* Program constants.                                                      *)
(***************************************************************************)
prefix == "monocloud:"
connectionCheckInterval == 60000
defaultTTL == 86400
\* getFullKey that adds no prefix.
getFullKey_NoPrefix(key) == key
getFullKey(key) == prefix \o key
testReadKey == prefix \o "_connection_test_readonly"
testWriteKey == prefix \o "_connection_test_write"
\* The keys callers use, as keys of the store: outside the prefix namespace.
BareKeys == MapKeys
StoreKeys == {getFullKey(k) : k \in MapKeys} \cup {testWriteKey} \cup BareKeys

(***************************************************************************)
(* The persistent tier: the Upstash store and its REST client.  A call is  *)
(* issued when the handler reaches its await and takes effect when the     *)
(* handler resumes.  tier is the store's present behaviour; the error a    *)
(* command ends with is named by the substrings its message carries.       *)
(***************************************************************************)
TierModes == {"ok", "readonly", "nokeys", "noget", "timeout", "broken", "unconfigured", "any"}
ErrKinds == {"noperm", "noperm_keys", "readonly", "conn", "other"}

VARIABLES
  impl,                \* "lib" (src/lib/redis-cache.ts) or "p9" (src/unnamed/part_009)
  tier,                \* the persistent store's behaviour
  now,                 \* Date.now(), in ms
  memoryCache,         \* the module-level Map: key -> value
  store,               \* the persistent store: full key -> [has, text, exp, src]
  isRedisAvailable, isReadOnly, keysCommandAllowed, getCommandAllowed,
  lastConnectionCheck, \* the fields of RedisCache ("lib")
  task,                \* the calls in progress, one record per caller
  lastSet,             \* key -> the value of the latest set(key) whose Map write is
                       \* done and that no later set, delete or clear followed
  cache,               \* ServerCache.cache (src/lib/cache.ts): key -> entry
  serverCall,          \* the latest call of a ServerCache method and what it returned
  route,               \* the request an administrative clear endpoint is handling
  adminApiKey,         \* process.env.ADMIN_API_KEY, "unset" when not configured
  localStorage,        \* the browser's localStorage: full key -> item
  isStorageAvailable,  \* ClientCache.isStorageAvailable
  clientCall           \* the latest call of a ClientCache method and what it returned

vars == <<impl, tier, now, memoryCache, store, isRedisAvailable, isReadOnly,
          keysCommandAllowed, getCommandAllowed, lastConnectionCheck, task, lastSet,
          cache, serverCall, route, adminApiKey, localStorage, isStorageAvailable, clientCall>>
clientVars == <<localStorage, isStorageAvailable, clientCall>>
serverVars == <<cache, serverCall, route, adminApiKey, clientVars>>
flagVars == <<isRedisAvailable, isReadOnly, keysCommandAllowed, getCommandAllowed>>

\* What a command issued now can end with: "ok" or the kind of error thrown.
\* Under "any" every call ends in any way (a fault at any point).
Outcomes(cmd) ==
  CASE tier = "ok" -> {"ok"}
    [] tier = "readonly" -> IF cmd \in {"SET", "DEL"} THEN {"noperm"} ELSE {"ok"}
    [] tier = "nokeys" -> IF cmd = "KEYS" THEN {"noperm_keys"} ELSE {"ok"}
    [] tier = "noget" -> IF cmd = "GET" THEN {"noperm"} ELSE {"ok"}
    [] tier = "timeout" -> {"conn"}
    [] tier = "any" -> {"ok"} \cup ErrKinds
    [] OTHER -> {"other"}

\* error.message.includes("NOPERM") || error.message.includes("no permissions")
IsPermissionError(e) == e \in {"noperm", "noperm_keys"}
\* ... || error.message.includes("readonly")
IsWritePermissionError(e) == e \in {"noperm", "noperm_keys", "readonly"}
\* includes("connect") || includes("network") || includes("timeout")
IsConnectionError(e) == e = "conn"
\* includes("NOPERM") && includes("keys")
IsKeysPermissionError(e) == e = "noperm_keys"

\* A store entry; src is the value the entry was written from (kept for the
\* properties: the store itself holds only the text).
NoEntry == [has |-> FALSE, text |-> <<>>, exp |-> 0, src |-> Absent]
Live(fullKey) == fullKey \in StoreKeys /\ store[fullKey].has /\ now < store[fullKey].exp

\* The client's default serializer: strings, numbers and booleans as they
\* are, anything else through JSON.stringify.
ClientSerialize(v) == IF v.t = "str" THEN v.c ELSE JSONstringify(v)
\* The client's automatic deserialization ("lib" builds the client with its
\* defaults): JSON.parse, and the raw string when that throws.
ClientDeserialize(text) ==
  LET r == JSONparse(text) IN IF r.ok THEN r.v ELSE JStr(text)
\* redis.get of the "lib" client: null for a missing key.
RedisGet(fullKey) == IF Live(fullKey) THEN ClientDeserialize(store[fullKey].text) ELSE JNull
\* redis.get of the "p9" client (automaticDeserialization: false): the raw string.
RedisGetRaw(fullKey) == IF Live(fullKey) THEN JStr(store[fullKey].text) ELSE JNull
\* redis.set(fullKey, data, { ex: ttl })
RedisSet(fullKey, v, ttl) ==
  [store EXCEPT ![fullKey] =
     [has |-> TRUE, text |-> ClientSerialize(v), exp |-> now + ttl * 1000, src |-> v]]
RedisDel(fullKeys) == [fk \in StoreKeys |-> IF fk \in fullKeys THEN NoEntry ELSE store[fk]]

(***************************************************************************)
(* Calls.  A caller's record: the operation, where it stands (pc), its     *)
(* arguments, what it returned (ret, st), the persistent commands it has   *)
(* issued (calls) and the last error it caught (err).  prev is the         *)
(* caller's calls before this one, kept for the properties.                *)
(***************************************************************************)
NoStatus == [available |-> FALSE, readOnly |-> FALSE, keysCommandAllowed |-> FALSE,
             getCommandAllowed |-> FALSE, keysCount |-> 0, memoryKeysCount |-> 0]
NoSummary == [op |-> "none", key |-> "", val |-> Absent, ttl |-> 0, at |-> 0, ret |-> Absent,
              calls |-> {}, err |-> "none"]
Summary(r) == [op |-> r.op, key |-> r.key, val |-> r.val, ttl |-> r.ttl, at |-> r.at,
               ret |-> r.ret, calls |-> r.calls, err |-> r.err]
IdleTask == [op |-> "none", pc |-> "idle", key |-> "", val |-> Absent, ttl |-> 0, at |-> 0,
             ret |-> Absent, st |-> NoStatus, calls |-> {}, err |-> "none",
             found |-> {}, prev |-> NoSummary, prev2 |-> NoSummary]
Free(t) == task[t].pc \in {"idle", "done"}
\* A new call by caller t.  With depth >= 1 it remembers when it started (at)
\* and the call before (prev), with depth >= 2 the call before that (prev2).
NewCall(t, op, key, val, ttl, depth) ==
  [IdleTask EXCEPT !.op = op, !.key = key, !.val = val, !.ttl = ttl,
     !.at = IF depth >= 1 THEN now ELSE 0,
     !.prev = IF depth >= 1 /\ task[t].op # "none" THEN Summary(task[t]) ELSE NoSummary,
     !.prev2 = IF depth >= 2 THEN task[t].prev ELSE NoSummary]
Await(r, pc, cmd) == [r EXCEPT !.pc = pc, !.calls = @ \cup {cmd}]
Return(r, ret) == [r EXCEPT !.pc = "done", !.ret = ret]
Caught(r, e) == [r EXCEPT !.err = e]
\* An error that leaves the handler: the promise rejects.
Throw(r, e) == [r EXCEPT !.pc = "threw", !.err = e]

MapSet(key, v) == [memoryCache EXCEPT ![key] = v]
MapHas(key) == memoryCache[key] # Absent
MapSize == Cardinality({k \in MapDomain : memoryCache[k] # Absent})
MapClear == [k \in MapDomain |-> Absent]

(***************************************************************************)
(* RedisCache.get, "lib".                                                  *)
(***************************************************************************)
LibGet(t, key, depth) ==
  /\ impl = "lib" /\ Free(t)
  /\ LET r == NewCall(t, "get", key, Absent, 0, depth)
     IN task' = [task EXCEPT ![t] =
          IF MapHas(key) THEN Return(r, memoryCache[key])
          ELSE IF isRedisAvailable /\ getCommandAllowed THEN Await(r, "get", "GET")
          ELSE Return(r, JNull)]
  /\ UNCHANGED <<serverVars, lastSet, impl, tier, now, memoryCache, store, flagVars, lastConnectionCheck>>

LibGetResume(t) ==
  /\ impl = "lib" /\ task[t].op = "get" /\ task[t].pc = "get"
  /\ \E e \in Outcomes("GET") :
     LET r == task[t]
         data == RedisGet(getFullKey(r.key))
     IN IF e = "ok"
        THEN /\ memoryCache' = IF Truthy(data) THEN MapSet(r.key, data) ELSE memoryCache
             /\ task' = [task EXCEPT ![t] = Return(r, IF Truthy(data) THEN data ELSE JNull)]
             /\ UNCHANGED flagVars
        ELSE /\ getCommandAllowed' = IF IsPermissionError(e) THEN FALSE ELSE getCommandAllowed
             /\ isRedisAvailable' =
                  IF ~IsPermissionError(e) /\ IsConnectionError(e) THEN FALSE ELSE isRedisAvailable
             /\ task' = [task EXCEPT ![t] = Return(Caught(r, e), JNull)]
             /\ UNCHANGED <<memoryCache, isReadOnly, keysCommandAllowed>>
  /\ UNCHANGED <<serverVars, lastSet, impl, tier, now, store, lastConnectionCheck>>

(***************************************************************************)
(* RedisCache.set, "lib".                                                  *)
(***************************************************************************)
\* The catch block of set: the flags after error e.
LibSetCatch(e) ==
  /\ isReadOnly' = IF IsWritePermissionError(e) THEN TRUE ELSE isReadOnly
  /\ isRedisAvailable' =
       IF ~IsWritePermissionError(e) /\ IsConnectionError(e) THEN FALSE ELSE isRedisAvailable
  /\ UNCHANGED <<keysCommandAllowed, getCommandAllowed>>

\* set that writes to the store whatever isReadOnly says.
LibSet_IgnoresReadOnly(t, key, v, ttl, depth) ==
  /\ impl = "lib" /\ Free(t)
  /\ memoryCache' = MapSet(key, v)
  /\ lastSet' = [lastSet EXCEPT ![key] = v]
  /\ task' = [task EXCEPT ![t] =
       IF isRedisAvailable THEN Await(NewCall(t, "set", key, v, ttl, depth), "set", "SET")
       ELSE Return(NewCall(t, "set", key, v, ttl, depth), JBool(TRUE))]
  /\ UNCHANGED <<serverVars, impl, tier, now, store, flagVars, lastConnectionCheck>>

LibSet(t, key, v, ttl, depth) ==
  /\ impl = "lib" /\ Free(t)
  /\ memoryCache' = MapSet(key, v)
  /\ lastSet' = [lastSet EXCEPT ![key] = v]
  /\ LET r == NewCall(t, "set", key, v, ttl, depth)
     IN IF isRedisAvailable /\ ~isReadOnly
        THEN IF v.t = "cyclic"
             THEN \* JSON.stringify(data) throws inside the try
                  /\ task' = [task EXCEPT ![t] = Return(Caught(r, "other"), JBool(FALSE))]
                  /\ LibSetCatch("other")
             ELSE /\ task' = [task EXCEPT ![t] = Await(r, "set", "SET")]
                  /\ UNCHANGED flagVars
        ELSE /\ task' = [task EXCEPT ![t] = Return(r, JBool(TRUE))]
             /\ UNCHANGED flagVars
  /\ UNCHANGED <<serverVars, impl, tier, now, store, lastConnectionCheck>>

LibSetResume(t) ==
  /\ impl = "lib" /\ task[t].op = "set" /\ task[t].pc = "set"
  /\ \E e \in Outcomes("SET") :
     LET r == task[t]
     IN IF e = "ok"
        THEN /\ store' = RedisSet(getFullKey(r.key), r.val, r.ttl)
             /\ task' = [task EXCEPT ![t] =
                  IF getCommandAllowed THEN Await(r, "verify", "GET") ELSE Return(r, JBool(TRUE))]
             /\ UNCHANGED flagVars
        ELSE /\ LibSetCatch(e)
             /\ task' = [task EXCEPT ![t] = Return(Caught(r, e), JBool(FALSE))]
             /\ UNCHANGED store
  /\ UNCHANGED <<serverVars, lastSet, impl, tier, now, memoryCache, lastConnectionCheck>>

LibSetVerify(t) ==
  /\ impl = "lib" /\ task[t].op = "set" /\ task[t].pc = "verify"
  /\ \E e \in Outcomes("GET") :
     LET r == task[t]
     IN IF e = "ok"
        THEN /\ task' = [task EXCEPT ![t] = Return(r, JBool(Truthy(RedisGet(getFullKey(r.key)))))]
             /\ UNCHANGED flagVars
        ELSE /\ LibSetCatch(e)
             /\ task' = [task EXCEPT ![t] = Return(Caught(r, e), JBool(FALSE))]
  /\ UNCHANGED <<serverVars, lastSet, impl, tier, now, memoryCache, store, lastConnectionCheck>>

(***************************************************************************)
(* RedisCache.has, delete and clear, "lib".                                *)
(***************************************************************************)
LibHas(t, key, depth) ==
  /\ impl = "lib" /\ Free(t)
  /\ LET r == NewCall(t, "has", key, Absent, 0, depth)
     IN task' = [task EXCEPT ![t] =
          IF MapHas(key) THEN Return(r, JBool(TRUE))
          ELSE IF isRedisAvailable THEN Await(r, "exists", "EXISTS")
          ELSE Return(r, JBool(FALSE))]
  /\ UNCHANGED <<serverVars, lastSet, impl, tier, now, memoryCache, store, flagVars, lastConnectionCheck>>

\* has without its try/catch: the error of redis.exists reaches the caller.
LibHasResume_NoCatch(t) ==
  /\ impl = "lib" /\ task[t].op = "has" /\ task[t].pc = "exists"
  /\ \E e \in Outcomes("EXISTS") :
     LET r == task[t]
     IN task' = [task EXCEPT ![t] =
          IF e = "ok" THEN Return(r, JBool(Live(getFullKey(r.key)))) ELSE Throw(r, e)]
  /\ UNCHANGED <<serverVars, lastSet, impl, tier, now, memoryCache, store, flagVars, lastConnectionCheck>>

LibHasResume(t) ==
  /\ impl = "lib" /\ task[t].op = "has" /\ task[t].pc = "exists"
  /\ \E e \in Outcomes("EXISTS") :
     LET r == task[t]
     IN task' = [task EXCEPT ![t] =
          IF e = "ok" THEN Return(r, JBool(Live(getFullKey(r.key))))
          ELSE Return(Caught(r, e), JBool(FALSE))]
  /\ UNCHANGED <<serverVars, lastSet, impl, tier, now, memoryCache, store, flagVars, lastConnectionCheck>>

LibDelete(t, key, depth) ==
  /\ impl = "lib" /\ Free(t)
  /\ memoryCache' = MapSet(key, Absent)
  /\ lastSet' = [lastSet EXCEPT ![key] = Absent]
  /\ LET r == NewCall(t, "delete", key, Absent, 0, depth)
     IN task' = [task EXCEPT ![t] =
          IF isRedisAvailable /\ ~isReadOnly THEN Await(r, "del", "DEL")
          ELSE Return(r, JBool(TRUE))]
  /\ UNCHANGED <<serverVars, impl, tier, now, store, flagVars, lastConnectionCheck>>

LibDeleteResume(t) ==
  /\ impl = "lib" /\ task[t].op = "delete" /\ task[t].pc = "del"
  /\ \E e \in Outcomes("DEL") :
     LET r == task[t]
     IN IF e = "ok"
        THEN /\ store' = RedisDel({getFullKey(r.key)})
             /\ task' = [task EXCEPT ![t] = Return(r, JBool(TRUE))]
             /\ UNCHANGED isReadOnly
        ELSE /\ isReadOnly' = IF IsWritePermissionError(e) THEN TRUE ELSE isReadOnly
             /\ task' = [task EXCEPT ![t] = Return(Caught(r, e), JBool(FALSE))]
             /\ UNCHANGED store
  /\ UNCHANGED <<serverVars, lastSet, impl, tier, now, memoryCache, isRedisAvailable, keysCommandAllowed,
                 getCommandAllowed, lastConnectionCheck>>

\* redis.keys(fullPattern): the live keys the glob matches.  The patterns in
\* use are a literal key or a stem followed by "*".
GlobMatch(fullPattern, fullKey) ==
  \/ fullPattern = fullKey
  \/ \E stem \in {prefix} \cup StoreKeys, rest \in {""} \cup Keys \cup {"_connection_test_write"} :
        fullPattern = stem \o "*" /\ fullKey = stem \o rest
RedisKeys(fullPattern) == {fk \in StoreKeys : Live(fk) /\ GlobMatch(fullPattern, fk)}

\* The catch block of clear: the flags after error e.
LibClearCatch(e) ==
  /\ keysCommandAllowed' = IF IsKeysPermissionError(e) THEN FALSE ELSE keysCommandAllowed
  /\ isReadOnly' =
       IF ~IsKeysPermissionError(e) /\ IsWritePermissionError(e) THEN TRUE ELSE isReadOnly
  /\ UNCHANGED <<isRedisAvailable, getCommandAllowed>>

\* clear that leaves the Map as it is.
LibClear_KeepsMap(t, pattern, depth) ==
  /\ impl = "lib" /\ Free(t)
  /\ UNCHANGED memoryCache
  /\ lastSet' = MapClear
  /\ LET r == NewCall(t, "clear", pattern, Absent, 0, depth)
     IN task' = [task EXCEPT ![t] =
          IF isRedisAvailable /\ ~isReadOnly /\ keysCommandAllowed THEN Await(r, "keys", "KEYS")
          ELSE Return(r, JBool(TRUE))]
  /\ UNCHANGED <<serverVars, impl, tier, now, store, flagVars, lastConnectionCheck>>

\* pattern = "" stands for a call without pattern.
LibClear(t, pattern, depth) ==
  /\ impl = "lib" /\ Free(t)
  /\ memoryCache' = MapClear
  /\ lastSet' = MapClear
  /\ LET r == NewCall(t, "clear", pattern, Absent, 0, depth)
     IN task' = [task EXCEPT ![t] =
          IF isRedisAvailable /\ ~isReadOnly /\ keysCommandAllowed THEN Await(r, "keys", "KEYS")
          ELSE Return(r, JBool(TRUE))]
  /\ UNCHANGED <<serverVars, impl, tier, now, store, flagVars, lastConnectionCheck>>

LibClearKeys(t) ==
  /\ impl = "lib" /\ task[t].op = "clear" /\ task[t].pc = "keys"
  /\ \E e \in Outcomes("KEYS") :
     LET r == task[t]
         fullPattern == IF r.key # "" THEN getFullKey(r.key) ELSE prefix \o "*"
         keys == RedisKeys(fullPattern)
     IN IF e = "ok"
        THEN /\ task' = [task EXCEPT ![t] =
                  IF keys # {} THEN Await([r EXCEPT !.found = keys], "cleardel", "DEL")
                  ELSE Return(r, JBool(TRUE))]
             /\ UNCHANGED flagVars
        ELSE /\ LibClearCatch(e)
             /\ task' = [task EXCEPT ![t] = Return(Caught(r, e), JBool(FALSE))]
  /\ UNCHANGED <<serverVars, lastSet, impl, tier, now, memoryCache, store, lastConnectionCheck>>

\* clear whose delete removes every key of the store.
LibClearDel_DeletesAll(t) ==
  /\ impl = "lib" /\ task[t].op = "clear" /\ task[t].pc = "cleardel"
  /\ \E e \in Outcomes("DEL") :
     LET r == task[t]
     IN IF e = "ok"
        THEN /\ store' = RedisDel(StoreKeys)
             /\ task' = [task EXCEPT ![t] = Return(r, JBool(TRUE))]
             /\ UNCHANGED flagVars
        ELSE /\ LibClearCatch(e)
             /\ task' = [task EXCEPT ![t] = Return(Caught(r, e), JBool(FALSE))]
             /\ UNCHANGED store
  /\ UNCHANGED <<serverVars, lastSet, impl, tier, now, memoryCache, lastConnectionCheck>>

LibClearDel(t) ==
  /\ impl = "lib" /\ task[t].op = "clear" /\ task[t].pc = "cleardel"
  /\ \E e \in Outcomes("DEL") :
     LET r == task[t]
     IN IF e = "ok"
        THEN /\ store' = RedisDel(r.found)
             /\ task' = [task EXCEPT ![t] = Return(r, JBool(TRUE))]
             /\ UNCHANGED flagVars
        ELSE /\ LibClearCatch(e)
             /\ task' = [task EXCEPT ![t] = Return(Caught(r, e), JBool(FALSE))]
             /\ UNCHANGED store
  /\ UNCHANGED <<serverVars, lastSet, impl, tier, now, memoryCache, lastConnectionCheck>>

(***************************************************************************)
(* RedisCache.checkRedisConnection and getStatus, "lib".  The probe runs   *)
(* in the constructor's un-awaited call (caller 0, op "probe") and inside  *)
(* getStatus.  Every await of the probe has a try/catch of its own, so its *)
(* outer catch (lines 146-162) is never entered by an error of the store.  *)
(***************************************************************************)
Status(keysCount) ==
  [available |-> isRedisAvailable', readOnly |-> isReadOnly',
   keysCommandAllowed |-> keysCommandAllowed', getCommandAllowed |-> getCommandAllowed',
   keysCount |-> keysCount, memoryKeysCount |-> MapSize]

\* What follows checkRedisConnection in the call r, the flags being the primed ones.
AfterCheck(r) ==
  IF r.op = "probe" THEN Return(r, Absent)
  ELSE IF isRedisAvailable' /\ keysCommandAllowed' THEN Await(r, "count", "KEYS")
  ELSE [Return(r, Absent) EXCEPT !.st = Status(0)]

\* getStatus whose checkRedisConnection() ignores the interval.
LibGetStatus_NoInterval(t, depth) ==
  /\ impl = "lib" /\ Free(t)
  /\ lastConnectionCheck' = now
  /\ task' = [task EXCEPT ![t] =
       Await(NewCall(t, "getStatus", "", Absent, 0, depth), "p_get", "GET")]
  /\ UNCHANGED <<serverVars, lastSet, impl, tier, now, memoryCache, store, flagVars>>

LibGetStatus(t, depth) ==
  /\ impl = "lib" /\ Free(t)
  /\ LET r == NewCall(t, "getStatus", "", Absent, 0, depth)
     IN IF now - lastConnectionCheck < connectionCheckInterval
        THEN /\ UNCHANGED lastConnectionCheck
             /\ UNCHANGED flagVars
             /\ task' = [task EXCEPT ![t] = AfterCheck(r)]
        ELSE /\ lastConnectionCheck' = now
             /\ UNCHANGED flagVars
             /\ task' = [task EXCEPT ![t] = Await(r, "p_get", "GET")]
  /\ UNCHANGED <<serverVars, lastSet, impl, tier, now, memoryCache, store>>

InProbe(t, pc) == impl = "lib" /\ task[t].op \in {"probe", "getStatus"} /\ task[t].pc = pc

ProbeGet(t) ==
  /\ InProbe(t, "p_get")
  /\ \E e \in Outcomes("GET") :
     LET denied == e # "ok" /\ IsPermissionError(e)
     IN /\ getCommandAllowed' = ~denied
        /\ isRedisAvailable' = ~denied
        /\ task' = [task EXCEPT ![t] =
             IF denied THEN Await(@, "p_keys", "KEYS") ELSE Await(@, "p_exists", "EXISTS")]
  /\ UNCHANGED <<serverVars, lastSet, impl, tier, now, memoryCache, store, isReadOnly, keysCommandAllowed,
                 lastConnectionCheck>>

ProbeExists(t) ==
  /\ InProbe(t, "p_exists")
  /\ \E e \in Outcomes("EXISTS") :
        task' = [task EXCEPT ![t] = Await(@, "p_keys", "KEYS")]
  /\ UNCHANGED <<serverVars, lastSet, impl, tier, now, memoryCache, store, flagVars, lastConnectionCheck>>

ProbeKeys(t) ==
  /\ InProbe(t, "p_keys")
  /\ \E e \in Outcomes("KEYS") :
        /\ keysCommandAllowed' =
             IF e = "ok" THEN TRUE ELSE IF IsPermissionError(e) THEN FALSE ELSE keysCommandAllowed
        /\ task' = [task EXCEPT ![t] = Await(@, "p_set", "SET")]
  /\ UNCHANGED <<serverVars, lastSet, impl, tier, now, memoryCache, store, isRedisAvailable, isReadOnly,
                 getCommandAllowed, lastConnectionCheck>>

\* The write test whose catch leaves isReadOnly as it was.
ProbeSet_KeepsFlag(t) ==
  /\ InProbe(t, "p_set")
  /\ \E e \in Outcomes("SET") :
        IF e = "ok"
        THEN /\ store' = [store EXCEPT ![testWriteKey] =
                  [has |-> TRUE, text |-> <<"t","e","s","t">>, exp |-> now + 10 * 1000,
                   src |-> JStr(<<"t","e","s","t">>)]]
             /\ task' = [task EXCEPT ![t] = Await(@, "p_del", "DEL")]
             /\ UNCHANGED flagVars
        ELSE /\ UNCHANGED <<flagVars, store>>
             /\ task' = [task EXCEPT ![t] = AfterCheck(@)]
  /\ UNCHANGED <<serverVars, lastSet, impl, tier, now, memoryCache, lastConnectionCheck>>

ProbeSet(t) ==
  /\ InProbe(t, "p_set")
  /\ \E e \in Outcomes("SET") :
        IF e = "ok"
        THEN /\ store' = [store EXCEPT ![testWriteKey] =
                  [has |-> TRUE, text |-> <<"t","e","s","t">>, exp |-> now + 10 * 1000,
                   src |-> JStr(<<"t","e","s","t">>)]]
             /\ task' = [task EXCEPT ![t] = Await(@, "p_del", "DEL")]
             /\ UNCHANGED flagVars
        ELSE /\ isReadOnly' = TRUE
             /\ UNCHANGED <<isRedisAvailable, keysCommandAllowed, getCommandAllowed, store>>
             /\ task' = [task EXCEPT ![t] = AfterCheck(@)]
  /\ UNCHANGED <<serverVars, lastSet, impl, tier, now, memoryCache, lastConnectionCheck>>

\* The write test that never takes isReadOnly back.
ProbeDel_KeepsReadOnly(t) ==
  /\ InProbe(t, "p_del")
  /\ \E e \in Outcomes("DEL") :
        /\ store' = IF e = "ok" THEN RedisDel({testWriteKey}) ELSE store
        /\ isReadOnly' = IF e = "ok" THEN isReadOnly ELSE TRUE
        /\ UNCHANGED <<isRedisAvailable, keysCommandAllowed, getCommandAllowed>>
        /\ task' = [task EXCEPT ![t] = AfterCheck(@)]
  /\ UNCHANGED <<serverVars, lastSet, impl, tier, now, memoryCache, lastConnectionCheck>>

ProbeDel(t) ==
  /\ InProbe(t, "p_del")
  /\ \E e \in Outcomes("DEL") :
        /\ store' = IF e = "ok" THEN RedisDel({testWriteKey}) ELSE store
        /\ isReadOnly' = (e # "ok")
        /\ UNCHANGED <<isRedisAvailable, keysCommandAllowed, getCommandAllowed>>
        /\ task' = [task EXCEPT ![t] = AfterCheck(@)]
  /\ UNCHANGED <<serverVars, lastSet, impl, tier, now, memoryCache, lastConnectionCheck>>

\* getStatus that reports the size of the Map as the count of the store's keys.
LibGetStatusCount_CountsMap(t) ==
  /\ impl = "lib" /\ task[t].op = "getStatus" /\ task[t].pc = "count"
  /\ \E e \in Outcomes("KEYS") :
     LET r == task[t]
     IN /\ keysCommandAllowed' =
             IF e # "ok" /\ IsKeysPermissionError(e) THEN FALSE ELSE keysCommandAllowed
        /\ UNCHANGED <<isRedisAvailable, isReadOnly, getCommandAllowed>>
        /\ task' = [task EXCEPT ![t] =
             IF e = "ok"
             THEN [Return(r, Absent) EXCEPT !.st = Status(MapSize)]
             ELSE [Return(Caught(r, e), Absent) EXCEPT !.st = Status(0)]]
  /\ UNCHANGED <<serverVars, lastSet, impl, tier, now, memoryCache, store, lastConnectionCheck>>

LibGetStatusCount(t) ==
  /\ impl = "lib" /\ task[t].op = "getStatus" /\ task[t].pc = "count"
  /\ \E e \in Outcomes("KEYS") :
     LET r == task[t]
     IN /\ keysCommandAllowed' =
             IF e # "ok" /\ IsKeysPermissionError(e) THEN FALSE ELSE keysCommandAllowed
        /\ UNCHANGED <<isRedisAvailable, isReadOnly, getCommandAllowed>>
        /\ task' = [task EXCEPT ![t] =
             IF e = "ok"
             THEN [Return(r, Absent) EXCEPT !.st = Status(Cardinality(RedisKeys(prefix \o "*")))]
             ELSE [Return(Caught(r, e), Absent) EXCEPT !.st = Status(0)]]
  /\ UNCHANGED <<serverVars, lastSet, impl, tier, now, memoryCache, store, lastConnectionCheck>>

(***************************************************************************)
(* RedisCache, "p9": the client is null without credentials, values are    *)
(* stringified by hand and the Map holds the strings.                      *)
(***************************************************************************)
\* this.redisAvailable (redis !== null): set once, in the constructor.
redisAvailable == tier # "unconfigured"

\* String(data) of an object.
ObjectObject == JStr(<<"[","o","b","j","e","c","t"," ","O","b","j","e","c","t","]">>)

safeJSONParse(data) ==
  IF data.t = "str"
  THEN LET r == JSONparse(data.c) IN IF r.ok THEN r.v ELSE data
  ELSE data

\* safeJSONStringify that always takes its fallback, String(data).
safeJSONStringify_StringOnly(data) ==
  IF data.t = "str" THEN data
  ELSE IF data.t \in {"obj", "cyclic"} THEN ObjectObject
  ELSE JStr(JSONstringify(data))

safeJSONStringify(data) ==
  IF data.t = "str" THEN data
  ELSE IF data.t = "cyclic" THEN ObjectObject
  ELSE JStr(JSONstringify(data))

P9Get(t, key, depth) ==
  /\ impl = "p9" /\ Free(t)
  /\ LET r == NewCall(t, "get", key, Absent, 0, depth)
     IN task' = [task EXCEPT ![t] =
          IF MapHas(key) THEN Return(r, safeJSONParse(memoryCache[key]))
          ELSE IF ~redisAvailable THEN Return(r, JNull)
          ELSE Await(r, "get", "GET")]
  /\ UNCHANGED <<serverVars, lastSet, impl, tier, now, memoryCache, store, flagVars, lastConnectionCheck>>

P9GetResume(t) ==
  /\ impl = "p9" /\ task[t].op = "get" /\ task[t].pc = "get"
  /\ \E e \in Outcomes("GET") :
     LET r == task[t]
         data == RedisGetRaw(getFullKey(r.key))
         parsedData == safeJSONParse(data)
         hit == e = "ok" /\ Truthy(data) /\ parsedData # JNull
     IN /\ memoryCache' = IF hit THEN MapSet(r.key, data) ELSE memoryCache
        /\ task' = [task EXCEPT ![t] =
             IF hit THEN Return(r, parsedData)
             ELSE IF e = "ok" THEN Return(r, JNull)
             ELSE Return(Caught(r, e), JNull)]
  /\ UNCHANGED <<serverVars, lastSet, impl, tier, now, store, flagVars, lastConnectionCheck>>

P9Set(t, key, v, ttl, depth) ==
  /\ impl = "p9" /\ Free(t)
  /\ memoryCache' = MapSet(key, safeJSONStringify(v))
  /\ lastSet' = [lastSet EXCEPT ![key] = v]
  /\ LET r == NewCall(t, "set", key, v, ttl, depth)
     IN task' = [task EXCEPT ![t] =
          IF ~redisAvailable THEN Return(r, JBool(TRUE)) ELSE Await(r, "set", "SET")]
  /\ UNCHANGED <<serverVars, impl, tier, now, store, flagVars, lastConnectionCheck>>

P9SetResume(t) ==
  /\ impl = "p9" /\ task[t].op = "set" /\ task[t].pc = "set"
  /\ \E e \in Outcomes("SET") :
     LET r == task[t]
     IN IF e = "ok"
        THEN /\ store' = [store EXCEPT ![getFullKey(r.key)] =
                  [has |-> TRUE, text |-> ClientSerialize(safeJSONStringify(r.val)),
                   exp |-> now + r.ttl * 1000, src |-> r.val]]
             /\ task' = [task EXCEPT ![t] = Return(r, JBool(TRUE))]
        ELSE /\ task' = [task EXCEPT ![t] = Return(Caught(r, e), JBool(MapHas(r.key)))]
             /\ UNCHANGED store
  /\ UNCHANGED <<serverVars, lastSet, impl, tier, now, memoryCache, flagVars, lastConnectionCheck>>

P9Has(t, key, depth) ==
  /\ impl = "p9" /\ Free(t)
  /\ LET r == NewCall(t, "has", key, Absent, 0, depth)
     IN task' = [task EXCEPT ![t] =
          IF MapHas(key) THEN Return(r, JBool(TRUE))
          ELSE IF ~redisAvailable THEN Return(r, JBool(FALSE))
          ELSE Await(r, "exists", "EXISTS")]
  /\ UNCHANGED <<serverVars, lastSet, impl, tier, now, memoryCache, store, flagVars, lastConnectionCheck>>

P9HasResume(t) ==
  /\ impl = "p9" /\ task[t].op = "has" /\ task[t].pc = "exists"
  /\ \E e \in Outcomes("EXISTS") :
     LET r == task[t]
     IN task' = [task EXCEPT ![t] =
          IF e = "ok" THEN Return(r, JBool(Live(getFullKey(r.key))))
          ELSE Return(Caught(r, e), JBool(FALSE))]
  /\ UNCHANGED <<serverVars, lastSet, impl, tier, now, memoryCache, store, flagVars, lastConnectionCheck>>

P9Delete(t, key, depth) ==
  /\ impl = "p9" /\ Free(t)
  /\ memoryCache' = MapSet(key, Absent)
  /\ lastSet' = [lastSet EXCEPT ![key] = Absent]
  /\ LET r == NewCall(t, "delete", key, Absent, 0, depth)
     IN task' = [task EXCEPT ![t] =
          IF ~redisAvailable THEN Return(r, JBool(TRUE)) ELSE Await(r, "del", "DEL")]
  /\ UNCHANGED <<serverVars, impl, tier, now, store, flagVars, lastConnectionCheck>>

P9DeleteResume(t) ==
  /\ impl = "p9" /\ task[t].op = "delete" /\ task[t].pc = "del"
  /\ \E e \in Outcomes("DEL") :
     LET r == task[t]
     IN /\ store' = IF e = "ok" THEN RedisDel({getFullKey(r.key)}) ELSE store
        /\ task' = [task EXCEPT ![t] =
             IF e = "ok" THEN Return(r, JBool(TRUE)) ELSE Return(Caught(r, e), JBool(FALSE))]
  /\ UNCHANGED <<serverVars, lastSet, impl, tier, now, memoryCache, flagVars, lastConnectionCheck>>

P9Clear(t, pattern, depth) ==
  /\ impl = "p9" /\ Free(t)
  /\ memoryCache' = MapClear
  /\ lastSet' = MapClear
  /\ LET r == NewCall(t, "clear", pattern, Absent, 0, depth)
     IN task' = [task EXCEPT ![t] =
          IF ~redisAvailable THEN Return(r, JBool(TRUE)) ELSE Await(r, "keys", "KEYS")]
  /\ UNCHANGED <<serverVars, impl, tier, now, store, flagVars, lastConnectionCheck>>

P9ClearKeys(t) ==
  /\ impl = "p9" /\ task[t].op = "clear" /\ task[t].pc = "keys"
  /\ \E e \in Outcomes("KEYS") :
     LET r == task[t]
         fullPattern == IF r.key # "" THEN getFullKey(r.key) ELSE prefix \o "*"
         keys == RedisKeys(fullPattern)
     IN task' = [task EXCEPT ![t] =
          IF e # "ok" THEN Return(Caught(r, e), JBool(FALSE))
          ELSE IF keys # {} THEN Await([r EXCEPT !.found = keys], "cleardel", "DEL")
          ELSE Return(r, JBool(TRUE))]
  /\ UNCHANGED <<serverVars, lastSet, impl, tier, now, memoryCache, store, flagVars, lastConnectionCheck>>

P9ClearDel(t) ==
  /\ impl = "p9" /\ task[t].op = "clear" /\ task[t].pc = "cleardel"
  /\ \E e \in Outcomes("DEL") :
     LET r == task[t]
     IN /\ store' = IF e = "ok" THEN RedisDel(r.found) ELSE store
        /\ task' = [task EXCEPT ![t] =
             IF e = "ok" THEN Return(r, JBool(TRUE)) ELSE Return(Caught(r, e), JBool(FALSE))]
  /\ UNCHANGED <<serverVars, lastSet, impl, tier, now, memoryCache, flagVars, lastConnectionCheck>>

P9Status(available, readOnly, keysCount, getAllowed) ==
  [available |-> available, readOnly |-> readOnly, keysCommandAllowed |-> available,
   getCommandAllowed |-> getAllowed, keysCount |-> keysCount, memoryKeysCount |-> MapSize]

P9GetStatus(t, depth) ==
  /\ impl = "p9" /\ Free(t)
  /\ LET r == NewCall(t, "getStatus", "", Absent, 0, depth)
     IN task' = [task EXCEPT ![t] =
          IF ~redisAvailable
          THEN [Return(r, Absent) EXCEPT !.st = P9Status(FALSE, FALSE, 0, TRUE)]
          ELSE Await(r, "count", "KEYS")]
  /\ UNCHANGED <<serverVars, lastSet, impl, tier, now, memoryCache, store, flagVars, lastConnectionCheck>>

P9GetStatusCount(t) ==
  /\ impl = "p9" /\ task[t].op = "getStatus" /\ task[t].pc = "count"
  /\ \E e \in Outcomes("KEYS") :
     LET r == task[t]
     IN task' = [task EXCEPT ![t] =
          IF e = "ok"
          THEN [Return(r, Absent) EXCEPT
                  !.st = P9Status(TRUE, FALSE, Cardinality(RedisKeys(prefix \o "*")), TRUE)]
          ELSE [Return(Caught(r, e), Absent) EXCEPT !.st = P9Status(FALSE, TRUE, 0, FALSE)]]
  /\ UNCHANGED <<serverVars, lastSet, impl, tier, now, memoryCache, store, flagVars, lastConnectionCheck>>

(***************************************************************************)
(* ServerCache (src/lib/cache.ts): a Map of entries with an expiry, its    *)
(* methods synchronous.  ttl is in milliseconds.                           *)
(***************************************************************************)
ServerDefaultTTL == 3600000
NoCacheEntry == [has |-> FALSE, data |-> Absent, timestamp |-> 0, expiresAt |-> 0]
NoCache == [k \in Keys |-> NoCacheEntry]
NoServerCall == [op |-> "none", key |-> "", ret |-> Absent]
\* No request in hand at an administrative endpoint.
NoRequest == [name |-> "none", pc |-> "idle", authorization |-> "none", pattern |-> "", code |-> 0]
CacheSize == Cardinality({k \in Keys : cache[k].has})
RedisFrame ==
  UNCHANGED <<impl, tier, now, memoryCache, store, flagVars, lastConnectionCheck, task, lastSet,
              route, adminApiKey, clientVars>>

ServerGet(key) ==
  LET entry == cache[key]
      gone == ~entry.has \/ now > entry.expiresAt
  IN /\ cache' = IF gone THEN [cache EXCEPT ![key] = NoCacheEntry] ELSE cache
     /\ serverCall' = [op |-> "get", key |-> key, ret |-> IF gone THEN JNull ELSE entry.data]
     /\ RedisFrame

ServerSet(key, data, ttl) ==
  /\ cache' = [cache EXCEPT ![key] =
       [has |-> TRUE, data |-> data, timestamp |-> now, expiresAt |-> now + ttl]]
  /\ serverCall' = [op |-> "set", key |-> key, ret |-> Absent]
  /\ RedisFrame

\* has that takes an entry as expired already at expiresAt.
ServerHas_Strict(key) ==
  /\ serverCall' = [op |-> "has", key |-> key,
                    ret |-> JBool(cache[key].has /\ now < cache[key].expiresAt)]
  /\ UNCHANGED cache
  /\ RedisFrame

ServerHas(key) ==
  /\ serverCall' = [op |-> "has", key |-> key,
                    ret |-> JBool(cache[key].has /\ now <= cache[key].expiresAt)]
  /\ UNCHANGED cache
  /\ RedisFrame

ServerDelete(key) ==
  /\ cache' = [cache EXCEPT ![key] = NoCacheEntry]
  /\ serverCall' = [op |-> "delete", key |-> key, ret |-> Absent]
  /\ RedisFrame

ServerClear ==
  /\ cache' = NoCache
  /\ serverCall' = [op |-> "clear", key |-> "", ret |-> Absent]
  /\ RedisFrame

ServerCleanup ==
  /\ cache' = [k \in Keys |-> IF cache[k].has /\ now > cache[k].expiresAt
                              THEN NoCacheEntry ELSE cache[k]]
  /\ serverCall' = [op |-> "cleanup", key |-> "", ret |-> Absent]
  /\ RedisFrame

(***************************************************************************)
(* ClientCache (src/lib/redis-cache.ts, lines 457-735): entries kept in    *)
(* the browser's localStorage as JSON text, its methods synchronous.  ttl  *)
(* is in milliseconds.                                                     *)
(***************************************************************************)
DigitChars == <<"0","1","2","3","4","5","6","7","8","9">>
\* The text JSON.stringify gives a non-negative integer, and the number
\* JSON.parse reads from it.
RECURSIVE NumText(_)
NumText(n) == IF n < 10 THEN <<DigitChars[n + 1]>> ELSE NumText(n \div 10) \o <<DigitChars[(n % 10) + 1]>>
RECURSIVE NumValue(_)
NumValue(digits) ==
  IF digits = <<>> THEN 0
  ELSE NumValue(SubSeq(digits, 1, Len(digits) - 1)) * 10
         + (CHOOSE d \in 0..9 : DigitChars[d + 1] = digits[Len(digits)])

\* obj.name of a parsed value: Absent stands for undefined.
RECURSIVE FieldOf(_, _)
FieldOf(pairs, name) ==
  IF pairs = <<>> THEN Absent
  ELSE IF pairs[Len(pairs)].c = name THEN pairs[Len(pairs)].kids[1]
  ELSE FieldOf(SubSeq(pairs, 1, Len(pairs) - 1), name)
Field(v, name) == IF v.t = "obj" THEN FieldOf(v.kids, name) ELSE Absent
\* "Date.now() > x" and "Date.now() <= x" for a parsed x: a number is
\* compared, null counts as 0, undefined gives NaN and both tests are false.
NowAfter(x) ==
  CASE x.t = "num" -> now > NumValue(x.c)
    [] x.t = "null" -> now > 0
    [] OTHER -> FALSE
NowUpTo(x) ==
  CASE x.t = "num" -> now <= NumValue(x.c)
    [] x.t = "null" -> now <= 0
    [] OTHER -> FALSE

ClientDefaultTTL == 3600000
ClientKeys == {getFullKey(k) : k \in Keys}
NoItem == [has |-> FALSE, text |-> <<>>]
NoStorage == [fk \in ClientKeys |-> NoItem]
NoClientCall == [op |-> "none", key |-> "", ret |-> Absent]
\* localStorage.getItem(fullKey) is truthy.
ItemFound(fullKey) == localStorage[fullKey].has /\ localStorage[fullKey].text # <<>>
RemoveItems(fullKeys) == [fk \in ClientKeys |-> IF fk \in fullKeys THEN NoItem ELSE localStorage[fk]]
ClientFrame ==
  UNCHANGED <<impl, tier, now, memoryCache, store, flagVars, lastConnectionCheck, task, lastSet,
              cache, serverCall, route, adminApiKey, isStorageAvailable>>

\* The keys cleanup() removes: items that do not parse, items whose
\* destructuring throws (null), and items past their expiresAt.
CleanupKeys ==
  {fk \in ClientKeys :
     /\ ItemFound(fk)
     /\ LET p == JSONparse(localStorage[fk].text)
        IN ~p.ok \/ p.v.t = "null" \/ NowAfter(Field(p.v, "expiresAt"))}

ClientGet(key) ==
  LET fullKey == getFullKey(key)
      p == JSONparse(localStorage[fullKey].text)
      Answer(ret, removed) ==
        /\ clientCall' = [op |-> "get", key |-> key, ret |-> ret]
        /\ localStorage' = IF removed THEN RemoveItems({fullKey}) ELSE localStorage
  IN /\ IF ~isStorageAvailable THEN Answer(JNull, FALSE)
        ELSE IF ~ItemFound(fullKey) THEN Answer(JNull, FALSE)
        ELSE IF ~p.ok THEN Answer(JNull, TRUE)
        ELSE IF p.v.t = "null" THEN Answer(JNull, FALSE)  \* destructuring null throws
        ELSE IF NowAfter(Field(p.v, "expiresAt")) THEN Answer(JNull, TRUE)
        ELSE Answer(Field(p.v, "data"), FALSE)
     /\ ClientFrame

\* quota: localStorage.setItem throws QuotaExceededError.
ClientSet(key, data, ttl, quota) ==
  LET fullKey == getFullKey(key)
      cacheItem == JObj(<<JPair(<<"d","a","t","a">>, data),
                          JPair(<<"t","i","m","e","s","t","a","m","p">>, JNum(NumText(now))),
                          JPair(<<"e","x","p","i","r","e","s","A","t">>, JNum(NumText(now + ttl)))>>)
      Answer(ret, storage) ==
        /\ clientCall' = [op |-> "set", key |-> key, ret |-> JBool(ret)]
        /\ localStorage' = storage
  IN /\ IF ~isStorageAvailable \/ key = "" THEN Answer(FALSE, localStorage)
        ELSE IF data.t = "cyclic" THEN Answer(FALSE, localStorage)
        ELSE IF quota THEN Answer(FALSE, RemoveItems(CleanupKeys))
        ELSE Answer(TRUE, [localStorage EXCEPT ![fullKey] =
                             [has |-> TRUE, text |-> JSONstringify(cacheItem)]])
     /\ ClientFrame

ClientHas(key) ==
  LET fullKey == getFullKey(key)
      p == JSONparse(localStorage[fullKey].text)
      Answer(ret, removed) ==
        /\ clientCall' = [op |-> "has", key |-> key, ret |-> JBool(ret)]
        /\ localStorage' = IF removed THEN RemoveItems({fullKey}) ELSE localStorage
  IN /\ IF ~isStorageAvailable THEN Answer(FALSE, FALSE)
        ELSE IF ~ItemFound(fullKey) THEN Answer(FALSE, FALSE)
        ELSE IF ~p.ok \/ p.v.t = "null" THEN Answer(FALSE, TRUE)
        ELSE Answer(NowUpTo(Field(p.v, "expiresAt")), FALSE)
     /\ ClientFrame

ClientDelete(key) ==
  /\ clientCall' = [op |-> "delete", key |-> key, ret |-> JBool(isStorageAvailable)]
  /\ localStorage' = IF isStorageAvailable THEN RemoveItems({getFullKey(key)}) ELSE localStorage
  /\ ClientFrame

ClientClear ==
  /\ clientCall' = [op |-> "clear", key |-> "", ret |-> JBool(isStorageAvailable)]
  /\ localStorage' = IF isStorageAvailable THEN RemoveItems(ClientKeys) ELSE localStorage
  /\ ClientFrame

ClientCleanup ==
  /\ clientCall' = [op |-> "cleanup", key |-> "", ret |-> JBool(isStorageAvailable)]
  /\ localStorage' = IF isStorageAvailable THEN RemoveItems(CleanupKeys) ELSE localStorage
  /\ ClientFrame

\* Another script of the page, or a truncated write, leaves text of its own
\* under a key of the cache.
ForeignTexts == {<<"{">>, <<"n","u","l","l">>}
ForeignItem(key, text) ==
  /\ localStorage' = [localStorage EXCEPT ![getFullKey(key)] = [has |-> TRUE, text |-> text]]
  /\ UNCHANGED clientCall
  /\ ClientFrame

(***************************************************************************)
(* The administrative clear endpoints, POST of                             *)
(* src/app/api/cache/clear/route.ts and of                                 *)
(* src/app/api/redis/clear-cache/route.ts.  Both import redisCache of      *)
(* "lib"; the handler's calls are caller 2's.  authorization is the        *)
(* request's header, "none" when it has none; pattern = "" is a body       *)
(* without pattern.                                                        *)
(***************************************************************************)
Bearer(key) == "Bearer " \o key
\* `${process.env.ADMIN_API_KEY}`
EnvText(v) == IF v = "unset" THEN "undefined" ELSE v
Authorizations == {"none", Bearer("k"), Bearer("undefined"), Bearer("x")}
Respond(r, code) == [r EXCEPT !.pc = "done", !.code = code]
RouteFrame ==
  UNCHANGED <<impl, tier, now, memoryCache, store, flagVars, lastConnectionCheck, lastSet,
              cache, serverCall, adminApiKey, clientVars>>

\* POST of cache/clear up to "await redisCache.getStatus()".
CacheClearPost(authorization, pattern, bodyOk) ==
  /\ impl = "lib" /\ route.pc \in {"idle", "done"} /\ Free(2)
  /\ LET r == [name |-> "cache/clear", pc |-> "status", authorization |-> authorization,
               pattern |-> pattern, code |-> 0]
     IN route' = IF authorization # Bearer(EnvText(adminApiKey)) THEN Respond(r, 401)
                 ELSE IF ~bodyOk THEN Respond(r, 500)
                 ELSE r
  /\ task' = [task EXCEPT ![2] = IdleTask]
  /\ RouteFrame

\* isAuthenticated(req) of redis/clear-cache.
isAuthenticated(authorization) == TRUE

\* POST of redis/clear-cache up to "await redisCache.getStatus()".
RedisClearCachePost(authorization, pattern, bodyOk) ==
  /\ impl = "lib" /\ route.pc \in {"idle", "done"} /\ Free(2)
  /\ LET r == [name |-> "redis/clear-cache", pc |-> "status", authorization |-> authorization,
               pattern |-> pattern, code |-> 0]
     IN route' = IF ~isAuthenticated(authorization) THEN Respond(r, 401)
                 ELSE IF ~bodyOk THEN Respond(r, 500)
                 ELSE r
  /\ task' = [task EXCEPT ![2] = IdleTask]
  /\ RouteFrame

\* redisCache.getStatus() called by the handler.
RouteGetStatus == route.pc = "status" /\ task[2].op = "none" /\ LibGetStatus(2, 0)

\* The handler after getStatus() returned: 403 when read-only; redis/clear-cache
\* drops the pattern when KEYS is not permitted.
RouteAfterStatus ==
  /\ route.pc = "status" /\ task[2].op = "getStatus" /\ task[2].pc = "done"
  /\ route' =
       IF task[2].st.readOnly THEN Respond(route, 403)
       ELSE IF route.name = "redis/clear-cache" /\ ~task[2].st.keysCommandAllowed
            THEN [route EXCEPT !.pc = "clear", !.pattern = ""]
       ELSE [route EXCEPT !.pc = "clear"]
  /\ task' = [task EXCEPT ![2] = IdleTask]
  /\ RouteFrame

\* redisCache.clear(pattern) called by the handler.
RouteClear == route.pc = "clear" /\ task[2].op = "none" /\ LibClear(2, route.pattern, 0)

\* The handler's response after clear returned.
RouteRespond ==
  /\ route.pc = "clear" /\ task[2].op = "clear" /\ task[2].pc = "done"
  /\ route' = Respond(route, 200)
  /\ UNCHANGED task
  /\ RouteFrame

(***************************************************************************)
(* The environment: the store changes its behaviour, time passes, the      *)
(* process restarts (the Map and the instance are built anew, the store    *)
(* keeps its entries).                                                     *)
(***************************************************************************)
ChangeMode(m) ==
  /\ {tier, m} \cap {"unconfigured", "any"} = {} /\ m # tier
  /\ tier' = m
  /\ UNCHANGED <<serverVars, lastSet, impl, now, memoryCache, store, flagVars, lastConnectionCheck, task>>

Tick ==
  /\ now + TickStep <= connectionCheckInterval + MaxTicks * TickStep
  /\ now' = now + TickStep
  /\ UNCHANGED <<serverVars, lastSet, impl, tier, memoryCache, store, flagVars, lastConnectionCheck, task>>

\* The constructor's un-awaited checkRedisConnection(): lastConnectionCheck is
\* 0, so the probe starts and waits for its first answer.
ConstructorProbe == Await([IdleTask EXCEPT !.op = "probe"], "p_get", "GET")

\* Module load and "new RedisCache()".
Constructed ==
  /\ memoryCache = MapClear
  /\ cache = NoCache /\ serverCall = NoServerCall /\ route = NoRequest
  /\ localStorage = NoStorage /\ clientCall = NoClientCall
  /\ isRedisAvailable = TRUE /\ isReadOnly = FALSE
  /\ keysCommandAllowed = TRUE /\ getCommandAllowed = TRUE
  /\ lastConnectionCheck = IF impl = "lib" THEN now ELSE 0
  /\ task = [t \in TaskIds |-> IF t = 0 /\ impl = "lib" THEN ConstructorProbe ELSE IdleTask]
  /\ lastSet = MapClear

Restart ==
  /\ memoryCache' = MapClear
  /\ cache' = NoCache /\ serverCall' = NoServerCall /\ route' = NoRequest
  /\ isRedisAvailable' = TRUE /\ isReadOnly' = FALSE
  /\ keysCommandAllowed' = TRUE /\ getCommandAllowed' = TRUE
  /\ lastConnectionCheck' = IF impl = "lib" THEN now ELSE 0
  /\ task' = [t \in TaskIds |-> IF t = 0 /\ impl = "lib" THEN ConstructorProbe ELSE IdleTask]
  /\ lastSet' = MapClear
  /\ UNCHANGED <<impl, tier, now, store, adminApiKey, clientVars>>

\* An entry another process wrote through the same class.
ForeignEntry(v) ==
  [has |-> TRUE, text |-> ClientSerialize(v), exp |-> now + defaultTTL * 1000, src |-> v]
EmptyStore == [fk \in StoreKeys |-> NoEntry]

Probe(t) == ProbeGet(t) \/ ProbeExists(t) \/ ProbeKeys(t) \/ ProbeSet(t) \/ ProbeDel(t)

(***************************************************************************)
(* Spec: one caller of "lib", every operation, every call to the store     *)
(* ending in any way, time passing.  The caller keeps no history.          *)
(***************************************************************************)
Init ==
  /\ impl = "lib"
  /\ tier = "any"
  /\ now = connectionCheckInterval
  /\ store = EmptyStore
  /\ Constructed
  /\ adminApiKey = "unset"
  /\ isStorageAvailable = TRUE

Next ==
  \/ \E k \in Keys : LibGet(1, k, 0)
  \/ LibGetResume(1)
  \/ \E k \in Keys, v \in {VNum7, VZero} : LibSet(1, k, v, TtlShort, 0)
  \/ LibSetResume(1)
  \/ LibSetVerify(1)
  \/ \E k \in Keys : LibHas(1, k, 0)
  \/ LibHasResume(1)
  \/ \E k \in Keys : LibDelete(1, k, 0)
  \/ LibDeleteResume(1)
  \/ LibClear(1, "", 0)
  \/ LibClearKeys(1)
  \/ LibClearDel(1)
  \/ LibGetStatus(1, 0)
  \/ LibGetStatusCount(1)
  \/ \E t \in {0, 1} : ProbeGet(t)
  \/ \E t \in {0, 1} : ProbeExists(t)
  \/ \E t \in {0, 1} : ProbeKeys(t)
  \/ \E t \in {0, 1} : ProbeSet(t)
  \/ \E t \in {0, 1} : ProbeDel(t)
  \/ Tick

Spec == Init /\ [][Next]_vars

(***************************************************************************)
(* SpecSeq: one caller of either class doing set and get in sequence, the  *)
(* caller remembering its call before; the store works, is read-only,      *)
(* times out, is not configured, or answers each call in any way; the      *)
(* process may restart.  Time stands still.                                *)
(***************************************************************************)
InitSeq ==
  /\ impl \in {"lib", "p9"}
  /\ tier \in {"ok", "readonly", "timeout", "unconfigured", "any"}
  /\ now = connectionCheckInterval
  /\ store = EmptyStore
  /\ Constructed
  /\ adminApiKey = "unset"
  /\ isStorageAvailable = TRUE

NextSeq ==
  \/ \E k \in Keys : LibGet(1, k, 1)
  \/ LibGetResume(1)
  \/ \E k \in Keys, v \in AllValues : LibSet(1, k, v, defaultTTL, 1)
  \/ LibSetResume(1)
  \/ LibSetVerify(1)
  \/ \E k \in Keys : P9Get(1, k, 1)
  \/ P9GetResume(1)
  \/ \E k \in Keys, v \in AllValues : P9Set(1, k, v, defaultTTL, 1)
  \/ P9SetResume(1)
  \/ ProbeGet(0)
  \/ ProbeExists(0)
  \/ ProbeKeys(0)
  \/ ProbeSet(0)
  \/ ProbeDel(0)
  \/ Restart

SpecSeq == InitSeq /\ [][NextSeq]_vars

(***************************************************************************)
(* SpecRace: two callers of either class interleaving get, set and delete  *)
(* of one key that another process may have written before.                *)
(***************************************************************************)
InitRace ==
  /\ impl \in {"lib", "p9"}
  /\ tier \in {"ok", "any"}
  /\ now = connectionCheckInterval
  /\ store \in {EmptyStore, [EmptyStore EXCEPT ![getFullKey("a")] = ForeignEntry(VNum7)]}
  /\ Constructed
  /\ adminApiKey = "unset"
  /\ isStorageAvailable = TRUE

NextRace ==
  \/ \E t \in {1, 2}, k \in Keys : LibGet(t, k, 0)
  \/ \E t \in {1, 2} : LibGetResume(t)
  \/ \E k \in Keys, v \in {VNum7, VZero} : LibSet(1, k, v, defaultTTL, 0)
  \/ LibSetResume(1)
  \/ LibSetVerify(1)
  \/ \E k \in Keys : LibDelete(1, k, 0)
  \/ LibDeleteResume(1)
  \/ \E t \in {1, 2}, k \in Keys : P9Get(t, k, 0)
  \/ \E t \in {1, 2} : P9GetResume(t)
  \/ \E k \in Keys, v \in {VNum7, VZero} : P9Set(1, k, v, defaultTTL, 0)
  \/ P9SetResume(1)
  \/ \E k \in Keys : P9Delete(1, k, 0)
  \/ P9DeleteResume(1)
  \/ ProbeGet(0)
  \/ ProbeExists(0)
  \/ ProbeKeys(0)
  \/ ProbeSet(0)
  \/ ProbeDel(0)

SpecRace == InitRace /\ [][NextRace]_vars

(***************************************************************************)
(* SpecFault: one caller of either class doing get, set and getStatus      *)
(* against a store that works, rejects writes or times out, time passing.  *)
(***************************************************************************)
InitFault ==
  /\ impl \in {"lib", "p9"}
  /\ tier \in {"ok", "readonly", "timeout"}
  /\ now = connectionCheckInterval
  /\ store = EmptyStore
  /\ Constructed
  /\ adminApiKey = "unset"
  /\ isStorageAvailable = TRUE

NextFault ==
  \/ \E k \in Keys : LibGet(1, k, 1)
  \/ LibGetResume(1)
  \/ \E k \in Keys, v \in {VNum7, VZero} : LibSet(1, k, v, TtlShort, 1)
  \/ LibSetResume(1)
  \/ LibSetVerify(1)
  \/ LibGetStatus(1, 1)
  \/ LibGetStatusCount(1)
  \/ \E k \in Keys : P9Get(1, k, 1)
  \/ P9GetResume(1)
  \/ \E k \in Keys, v \in {VNum7, VZero} : P9Set(1, k, v, TtlShort, 1)
  \/ P9SetResume(1)
  \/ P9GetStatus(1, 1)
  \/ P9GetStatusCount(1)
  \/ \E t \in {0, 1} : ProbeGet(t)
  \/ \E t \in {0, 1} : ProbeExists(t)
  \/ \E t \in {0, 1} : ProbeKeys(t)
  \/ \E t \in {0, 1} : ProbeSet(t)
  \/ \E t \in {0, 1} : ProbeDel(t)
  \/ Tick

SpecFault == InitFault /\ [][NextFault]_vars

(***************************************************************************)
(* SpecTtl: one caller of "lib" doing set, get and has while time passes,  *)
(* the caller remembering its two calls before.                            *)
(***************************************************************************)
InitTtl ==
  /\ impl = "lib"
  /\ tier \in {"ok", "timeout"}
  /\ now = connectionCheckInterval
  /\ store = EmptyStore
  /\ Constructed
  /\ adminApiKey = "unset"
  /\ isStorageAvailable = TRUE

NextTtl ==
  \/ \E k \in Keys : LibGet(1, k, 2)
  \/ LibGetResume(1)
  \/ \E k \in Keys : LibSet(1, k, VNum7, TtlShort, 2)
  \/ LibSetResume(1)
  \/ LibSetVerify(1)
  \/ \E k \in Keys : LibHas(1, k, 2)
  \/ LibHasResume(1)
  \/ ProbeGet(0)
  \/ ProbeExists(0)
  \/ ProbeKeys(0)
  \/ ProbeSet(0)
  \/ ProbeDel(0)
  \/ Tick

SpecTtl == InitTtl /\ [][NextTtl]_vars

(***************************************************************************)
(* SpecOps: one caller of either class doing set, get, has and delete,     *)
(* with the empty key and an unserializable value among the arguments of   *)
(* set.  Time stands still.                                                *)
(***************************************************************************)
InitOps ==
  /\ impl \in {"lib", "p9"}
  /\ tier \in {"ok", "noget", "readonly", "timeout", "unconfigured", "any"}
  /\ now = connectionCheckInterval
  /\ store = EmptyStore
  /\ Constructed
  /\ adminApiKey = "unset"
  /\ isStorageAvailable = TRUE

NextOps ==
  \/ \E k \in Keys : LibGet(1, k, 0)
  \/ LibGetResume(1)
  \/ \E k \in MapKeys, v \in {VNum7, JCyclic} : LibSet(1, k, v, defaultTTL, 0)
  \/ LibSetResume(1)
  \/ LibSetVerify(1)
  \/ \E k \in Keys : LibHas(1, k, 0)
  \/ LibHasResume(1)
  \/ \E k \in Keys : LibDelete(1, k, 0)
  \/ LibDeleteResume(1)
  \/ \E k \in Keys : P9Get(1, k, 0)
  \/ P9GetResume(1)
  \/ \E k \in MapKeys, v \in {VNum7, JCyclic} : P9Set(1, k, v, defaultTTL, 0)
  \/ P9SetResume(1)
  \/ \E k \in Keys : P9Has(1, k, 0)
  \/ P9HasResume(1)
  \/ \E k \in Keys : P9Delete(1, k, 0)
  \/ P9DeleteResume(1)
  \/ ProbeGet(0)
  \/ ProbeExists(0)
  \/ ProbeKeys(0)
  \/ ProbeSet(0)
  \/ ProbeDel(0)

SpecOps == InitOps /\ [][NextOps]_vars

(***************************************************************************)
(* SpecClear: one caller of either class doing set, clear and getStatus,   *)
(* and a user of ServerCache; the caller remembers its call before.  Time  *)
(* stands still.                                                           *)
(***************************************************************************)
InitClear ==
  /\ impl \in {"lib", "p9"}
  /\ tier \in {"ok", "nokeys", "unconfigured", "any"}
  /\ now = connectionCheckInterval
  /\ store = EmptyStore
  /\ Constructed
  /\ adminApiKey = "unset"
  /\ isStorageAvailable = TRUE

NextClear ==
  \/ \E k \in Keys : LibSet(1, k, VNum7, defaultTTL, 1)
  \/ LibSetResume(1)
  \/ LibSetVerify(1)
  \/ \E pattern \in {"", "a"} : LibClear(1, pattern, 1)
  \/ LibClearKeys(1)
  \/ LibClearDel(1)
  \/ LibGetStatus(1, 1)
  \/ LibGetStatusCount(1)
  \/ \E k \in Keys : P9Set(1, k, VNum7, defaultTTL, 1)
  \/ P9SetResume(1)
  \/ \E pattern \in {"", "a"} : P9Clear(1, pattern, 1)
  \/ P9ClearKeys(1)
  \/ P9ClearDel(1)
  \/ P9GetStatus(1, 1)
  \/ P9GetStatusCount(1)
  \/ ProbeGet(0)
  \/ ProbeExists(0)
  \/ ProbeKeys(0)
  \/ ProbeSet(0)
  \/ ProbeDel(0)
  \/ \E k \in Keys : ServerSet(k, VNum7, ServerDefaultTTL)
  \/ ServerClear

SpecClear == InitClear /\ [][NextClear]_vars

(***************************************************************************)
(* SpecAdmin: requests to the two administrative clear endpoints, with and *)
(* without ADMIN_API_KEY configured, beside one caller of set.             *)
(***************************************************************************)
InitAdmin ==
  /\ impl = "lib"
  /\ tier \in {"ok", "nokeys", "readonly"}
  /\ now = connectionCheckInterval
  /\ store = EmptyStore
  /\ Constructed
  /\ adminApiKey \in {"unset", "k"}
  /\ isStorageAvailable = TRUE

NextAdmin ==
  \/ \E k \in Keys : LibSet(1, k, VNum7, defaultTTL, 0)
  \/ LibSetResume(1)
  \/ LibSetVerify(1)
  \/ \E a \in Authorizations, pattern \in {"", "a"}, bodyOk \in BOOLEAN :
       CacheClearPost(a, pattern, bodyOk)
  \/ \E a \in Authorizations, pattern \in {"", "a"}, bodyOk \in BOOLEAN :
       RedisClearCachePost(a, pattern, bodyOk)
  \/ RouteGetStatus
  \/ LibGetStatusCount(2)
  \/ RouteAfterStatus
  \/ RouteClear
  \/ LibClearKeys(2)
  \/ LibClearDel(2)
  \/ RouteRespond
  \/ ProbeGet(0)
  \/ ProbeExists(0)
  \/ ProbeKeys(0)
  \/ ProbeSet(0)
  \/ ProbeDel(0)

SpecAdmin == InitAdmin /\ [][NextAdmin]_vars

(***************************************************************************)
(* SpecRecover: the store starts restricted or unreachable and may become  *)
(* fully permitted, and then stays so.  Caller 1 sets and gets at any      *)
(* time and asks for the status after the store has recovered.             *)
(***************************************************************************)
InitRecover ==
  /\ impl = "lib"
  /\ tier \in {"readonly", "nokeys", "noget", "timeout"}
  /\ now = connectionCheckInterval
  /\ store = EmptyStore
  /\ Constructed
  /\ adminApiKey = "unset"
  /\ isStorageAvailable = TRUE

NextRecover ==
  \/ ChangeMode("ok")
  \/ Tick
  \/ \E t \in {0, 1} : ProbeGet(t)
  \/ \E t \in {0, 1} : ProbeExists(t)
  \/ \E t \in {0, 1} : ProbeKeys(t)
  \/ \E t \in {0, 1} : ProbeSet(t)
  \/ \E t \in {0, 1} : ProbeDel(t)
  \/ tier = "ok" /\ LibGetStatus(1, 1)
  \/ LibGetStatusCount(1)
  \/ \E k \in Keys : LibSet(1, k, VNum7, defaultTTL, 1)
  \/ LibSetResume(1)
  \/ LibSetVerify(1)
  \/ \E k \in Keys : LibGet(1, k, 1)
  \/ LibGetResume(1)

SpecRecover == InitRecover /\ [][NextRecover]_vars

(***************************************************************************)
(* SpecProbe: probes beside a caller that sets and gets, one of its keys   *)
(* being the name of the probe's write sentinel.                           *)
(***************************************************************************)
InitProbe ==
  /\ impl = "lib"
  /\ tier \in {"ok", "any"}
  /\ now = connectionCheckInterval
  /\ store = EmptyStore
  /\ Constructed
  /\ adminApiKey = "unset"
  /\ isStorageAvailable = TRUE

NextProbe ==
  \/ \E k \in Keys \cup {SentinelName} : LibSet(1, k, VNum7, defaultTTL, 0)
  \/ LibSetResume(1)
  \/ LibSetVerify(1)
  \/ \E k \in Keys \cup {SentinelName} : LibGet(1, k, 0)
  \/ LibGetResume(1)
  \/ ProbeGet(0)
  \/ ProbeExists(0)
  \/ ProbeKeys(0)
  \/ ProbeSet(0)
  \/ ProbeDel(0)
  \/ Restart

SpecProbe == InitProbe /\ [][NextProbe]_vars

(***************************************************************************)
(* SpecExpiry: the two stores of expiring entries, ServerCache and         *)
(* ClientCache, with ttl arguments below, at and above zero, while time    *)
(* passes.                                                                 *)
(***************************************************************************)
TtlArgs == {0 - 1, 0, TickStep}

InitExpiry ==
  /\ impl = "lib"
  /\ tier = "ok"
  /\ now = connectionCheckInterval
  /\ store = EmptyStore
  /\ Constructed
  /\ adminApiKey = "unset"
  /\ isStorageAvailable \in BOOLEAN

NextExpiry ==
  \/ Tick
  \/ \E k \in Keys, ttl \in TtlArgs : ServerSet(k, VNum7, ttl)
  \/ \E k \in Keys : ServerGet(k)
  \/ \E k \in Keys : ServerHas(k)
  \/ \E k \in Keys : ServerDelete(k)
  \/ ServerClear
  \/ ServerCleanup
  \/ \E k \in MapKeys, v \in {VNum7, JCyclic}, ttl \in TtlArgs, quota \in BOOLEAN :
       ClientSet(k, v, ttl, quota)
  \/ \E k \in Keys : ClientGet(k)
  \/ \E k \in Keys : ClientHas(k)
  \/ \E k \in Keys : ClientDelete(k)
  \/ ClientClear
  \/ ClientCleanup
  \/ \E k \in Keys, text \in ForeignTexts : ForeignItem(k, text)

SpecExpiry == InitExpiry /\ [][NextExpiry]_vars

(***************************************************************************)
(* SpecDecode: reads of stored text that does not decode.  The store may   *)
(* hold, under a key of the cache, text cut short by another writer.       *)
(***************************************************************************)
TruncatedEntry ==
  [has |-> TRUE, text |-> <<"{">>, exp |-> now + defaultTTL * 1000, src |-> Absent]

InitDecode ==
  /\ impl \in {"lib", "p9"}
  /\ tier = "ok"
  /\ now = connectionCheckInterval
  /\ store \in {EmptyStore, [EmptyStore EXCEPT ![getFullKey("a")] = TruncatedEntry]}
  /\ Constructed
  /\ adminApiKey = "unset"
  /\ isStorageAvailable = TRUE

NextDecode ==
  \/ \E k \in Keys : LibGet(1, k, 0)
  \/ LibGetResume(1)
  \/ \E k \in Keys, v \in {VNum7, VStrHi, VObj} : LibSet(1, k, v, defaultTTL, 0)
  \/ LibSetResume(1)
  \/ LibSetVerify(1)
  \/ \E k \in Keys : P9Get(1, k, 0)
  \/ P9GetResume(1)
  \/ \E k \in Keys, v \in {VNum7, VStrHi, VObj} : P9Set(1, k, v, defaultTTL, 0)
  \/ P9SetResume(1)
  \/ Restart
  \/ \E k \in Keys : ClientSet(k, VNum7, TickStep, FALSE)
  \/ \E k \in Keys : ClientGet(k)
  \/ \E k \in Keys, text \in ForeignTexts : ForeignItem(k, text)

SpecDecode == InitDecode /\ [][NextDecode]_vars

(***************************************************************************)
(* SpecRemoval: caller 2's get beside caller 1's delete and clear.  Caller *)
(* 2 starts a get only while caller 1's latest call is not a removal, so   *)
(* that a get in progress beside a removal started before it.              *)
(***************************************************************************)
Removals == {"delete", "clear"}

InitRemoval ==
  /\ impl \in {"lib", "p9"}
  /\ tier \in {"ok", "any"}
  /\ now = connectionCheckInterval
  /\ store \in {EmptyStore, [EmptyStore EXCEPT ![getFullKey("a")] = ForeignEntry(VNum7)]}
  /\ Constructed
  /\ adminApiKey = "unset"
  /\ isStorageAvailable = TRUE

NextRemoval ==
  \/ \E k \in Keys : task[1].op \notin Removals /\ LibGet(2, k, 0)
  \/ LibGetResume(2)
  \/ \E k \in Keys : LibSet(1, k, VNum7, defaultTTL, 0)
  \/ LibSetResume(1)
  \/ LibSetVerify(1)
  \/ \E k \in Keys : LibDelete(1, k, 0)
  \/ LibDeleteResume(1)
  \/ LibClear(1, "", 0)
  \/ LibClearKeys(1)
  \/ LibClearDel(1)
  \/ \E k \in Keys : task[1].op \notin Removals /\ P9Get(2, k, 0)
  \/ P9GetResume(2)
  \/ \E k \in Keys : P9Set(1, k, VNum7, defaultTTL, 0)
  \/ P9SetResume(1)
  \/ \E k \in Keys : P9Delete(1, k, 0)
  \/ P9DeleteResume(1)
  \/ P9Clear(1, "", 0)
  \/ P9ClearKeys(1)
  \/ P9ClearDel(1)
  \/ ProbeGet(0)
  \/ ProbeExists(0)
  \/ ProbeKeys(0)
  \/ ProbeSet(0)
  \/ ProbeDel(0)

SpecRemoval == InitRemoval /\ [][NextRemoval]_vars

(***************************************************************************)
(* SpecShared: two RedisCache instances of one module.  Caller 1 calls     *)
(* instance A (the default prefix), caller 2 calls instance B, constructed *)
(* with OtherPrefix; memoryCache is the module's one Map, which both       *)
(* instances use under the caller's key.  B only reads, and only where its *)
(* handler uses nothing of B but the Map: in "p9" without credentials      *)
(* (memory-only mode, the same for every instance), in "lib" on a Map hit  *)
(* (the handler returns before it reads a field of the instance).          *)
(***************************************************************************)
OtherPrefix == "other:"
SharedVals == {VNum7, JBool(TRUE)}

InitShared ==
  /\ \/ impl = "lib" /\ tier = "ok"
     \/ impl = "p9" /\ tier = "unconfigured"
  /\ now = connectionCheckInterval
  /\ store = EmptyStore
  /\ Constructed
  /\ adminApiKey = "unset"
  /\ isStorageAvailable = TRUE

NextShared ==
  \/ \E k \in Keys, v \in SharedVals : LibSet(1, k, v, defaultTTL, 0)
  \/ LibSetResume(1)
  \/ LibSetVerify(1)
  \/ \E k \in Keys : LibDelete(1, k, 0)
  \/ LibDeleteResume(1)
  \/ LibClear(1, "", 0)
  \/ LibClearKeys(1)
  \/ LibClearDel(1)
  \/ \E k \in Keys : MapHas(k) /\ LibGet(2, k, 1)
  \/ \E k \in Keys : MapHas(k) /\ LibHas(2, k, 1)
  \/ \E k \in Keys, v \in SharedVals : P9Set(1, k, v, defaultTTL, 0)
  \/ \E k \in Keys : P9Delete(1, k, 0)
  \/ P9Clear(1, "", 0)
  \/ \E k \in Keys : P9Get(2, k, 1)
  \/ \E k \in Keys : P9Has(2, k, 1)
  \/ ProbeGet(0)
  \/ ProbeExists(0)
  \/ ProbeKeys(0)
  \/ ProbeSet(0)
  \/ ProbeDel(0)

SpecShared == InitShared /\ [][NextShared]_vars

(***************************************************************************)
(* Properties.                                                             *)
(***************************************************************************)
Done(t, op) == task[t].op = op /\ task[t].pc = "done"
\* This step is caller t starting a call of op.
Starts(t, op) == task[t].pc \in {"idle", "done"} /\ task'[t] # task[t] /\ task'[t].op = op
Booleans == {JBool(TRUE), JBool(FALSE)}

\* C3: set returns true whenever its Local Tier write happened (it always
\* happens): no fault of the persistent tier makes set return false.
C3_SetReturnsTrue == \A t \in TaskIds : Done(t, "set") => task[t].ret = JBool(TRUE)

\* C4: whatever the persistent calls end with, get, set, has, delete, clear
\* and getStatus return a value (null, a boolean, a status) and never throw.
C4_NeverThrows ==
  \A t \in TaskIds :
    /\ task[t].pc # "threw"
    /\ Done(t, "get") => task[t].ret # Absent
    /\ task[t].pc = "done" /\ task[t].op \in {"set", "has", "delete", "clear"}
         => task[t].ret \in Booleans
    /\ Done(t, "getStatus") => task[t].st.memoryKeysCount = MapSize
C4_Witness == Done(1, "getStatus") /\ task[1].err # "none"

\* C5: a set called while isReadOnly is true returns true at once, has put
\* the value in the Map and issues no SET; a get of the key that follows a
\* set that issued no SET is served from the Map and returns the value.
C5_ReadOnlySet ==
  [][ /\ Starts(1, "set") /\ isReadOnly
         => /\ task'[1].pc = "done" /\ task'[1].ret = JBool(TRUE)
            /\ "SET" \notin task'[1].calls
            /\ memoryCache'[task'[1].key] = task'[1].val
      /\ Starts(1, "get") /\ Done(1, "set") /\ "SET" \notin task[1].calls
           /\ task'[1].key = task[1].key
         => /\ task'[1].pc = "done" /\ task'[1].ret = task[1].val
            /\ task'[1].calls = {} ]_vars
C5_Witness ==
  /\ Done(1, "get") /\ task[1].ret = VNum7 /\ task[1].calls = {}
  /\ isReadOnly /\ isRedisAvailable
  /\ ~store[getFullKey("a")].has

\* The call before this one was a set of the same key that wrote to the
\* store and returned true without meeting an error.
SetSucceeded(r) == r.op = "set" /\ r.ret = JBool(TRUE) /\ "SET" \in r.calls /\ r.err = "none"
LocalHolds(key, v) == memoryCache[key] = IF impl = "lib" THEN v ELSE safeJSONStringify(v)
PersistentHolds(key, v) ==
  Live(getFullKey(key)) /\ store[getFullKey(key)].text = ClientSerialize(v)

\* C1: set(k, v, ttl) immediately followed by get(k) returns v, whatever the
\* state of the persistent tier.
C1_GetAfterSet ==
  [][ Starts(1, "get") /\ Done(1, "set") /\ task'[1].key = task[1].key
        => task'[1].pc = "done" /\ task'[1].ret = task[1].val ]_vars
\* The same, of "lib" alone.
C1_GetAfterSetLib ==
  [][ impl = "lib" /\ Starts(1, "get") /\ Done(1, "set") /\ task'[1].key = task[1].key
        => task'[1].pc = "done" /\ task'[1].ret = task[1].val ]_vars

\* C9: after set(k, v1) then set(k, v2), both written to the store, get(k)
\* returns v2 and both tiers hold v2.
C9_LastWriteWins ==
  [][ /\ Starts(1, "get") /\ task[1].pc = "done" /\ task'[1].key = task[1].key
      /\ SetSucceeded(task[1]) /\ SetSucceeded(task[1].prev)
      /\ task[1].prev.key = task[1].key /\ task[1].prev.val # task[1].val
      => /\ task'[1].pc = "done" /\ task'[1].ret = task[1].val
         /\ LocalHolds(task[1].key, task[1].val)
         /\ PersistentHolds(task[1].key, task[1].val) ]_vars
\* The same, leaving out the strings "p9" parses on the way back.
C9_ExceptParsedStrings ==
  [][ /\ Starts(1, "get") /\ task[1].pc = "done" /\ task'[1].key = task[1].key
      /\ SetSucceeded(task[1]) /\ SetSucceeded(task[1].prev)
      /\ task[1].prev.key = task[1].key /\ task[1].prev.val # task[1].val
      /\ (impl = "lib" \/ safeJSONParse(safeJSONStringify(task[1].val)) = task[1].val)
      => /\ task'[1].pc = "done" /\ task'[1].ret = task[1].val
         /\ LocalHolds(task[1].key, task[1].val)
         /\ PersistentHolds(task[1].key, task[1].val) ]_vars

Structured(v) == v.t \in {"obj", "arr"}
\* C10: a nested object written by set and read back from the store by a
\* get that missed the Map is returned deep-equal, and so is it by the next
\* get of the key, served from the back-filled Map.
C10_RoundTrip ==
  /\ [](Done(1, "get") /\ "GET" \in task[1].calls /\ task[1].err = "none"
          /\ store[getFullKey(task[1].key)].has
          /\ Structured(store[getFullKey(task[1].key)].src)
        => task[1].ret = store[getFullKey(task[1].key)].src)
  /\ [][ Starts(1, "get") /\ Done(1, "get") /\ "GET" \in task[1].calls
           /\ Structured(task[1].ret) /\ task'[1].key = task[1].key
         => task'[1].pc = "done" /\ task'[1].calls = {} /\ task'[1].ret = task[1].ret ]_vars
C10_Witness ==
  /\ Done(1, "get") /\ task[1].calls = {} /\ task[1].ret = VObj
  /\ task[1].prev.op = "get" /\ "GET" \in task[1].prev.calls /\ task[1].prev.ret = VObj
  /\ impl = "p9"

\* C2: once set(k, v) has written the Map, every get(k) that starts before
\* another set, delete or clear of k returns v.
C2_GetSeesLatestSet ==
  [][ \A t \in {1, 2} :
        Starts(t, "get") /\ lastSet[task'[t].key] # Absent
        => task'[t].pc = "done" /\ task'[t].ret = lastSet[task'[t].key] ]_vars

\* C6: after a set whose write the store rejected with NOPERM, getStatus()
\* reports readOnly = true.
C6_ReadOnlyAfterDeniedSet ==
  Done(1, "getStatus") /\ task[1].prev.op = "set" /\ task[1].prev.err = "noperm"
    => task[1].st.readOnly
\* The same, of "lib" alone, with the flag itself after the set.
C6_ReadOnlyAfterDeniedSetLib ==
  impl = "lib" =>
    /\ C6_ReadOnlyAfterDeniedSet
    /\ (Done(1, "set") /\ task[1].err = "noperm" => isReadOnly)

\* C7: a get whose read timed out returns null, and while reads keep timing
\* out every later getStatus() reports available = false.
C7_UnavailableAfterTimeout ==
  /\ Done(1, "get") /\ task[1].err = "conn" => task[1].ret = JNull
  /\ Done(1, "getStatus") /\ tier = "timeout"
       /\ task[1].prev.op = "get" /\ task[1].prev.err = "conn"
     => ~task[1].st.available

\* The call r started more than ttl after the set w of the same key, which
\* returned true.
PastTtl(r, w) ==
  w.op = "set" /\ w.ret = JBool(TRUE) /\ w.key = r.key /\ r.at > w.at + w.ttl * 1000
\* C8: a get that is the next call after set(k, v, ttl) and starts more than
\* ttl after it returns null, and the has that follows returns false.
C8_LocalCopyExpires ==
  /\ Done(1, "get") /\ PastTtl(task[1], task[1].prev) => task[1].ret = JNull
  /\ Done(1, "has") /\ task[1].prev.op = "get" /\ task[1].prev.key = task[1].key
       /\ PastTtl(task[1].prev, task[1].prev2)
     => task[1].ret = JBool(FALSE)

\* The status says KEYS is not permitted: the flag of "lib"; for "p9", which
\* keeps no flag, what the getStatus() just before reported.
StatusDeniesKeys ==
  IF impl = "lib" THEN ~keysCommandAllowed
  ELSE Done(1, "getStatus") /\ ~task[1].st.keysCommandAllowed
\* C11: a clear called while the status has keysCommandAllowed = false empties
\* the Map and issues no KEYS and no DEL.
C11_ClearWithoutKeys ==
  [][ Starts(1, "clear") /\ StatusDeniesKeys
        => task'[1].pc = "done" /\ task'[1].calls = {} /\ memoryCache' = MapClear ]_vars
\* The same, of "lib" alone.
C11_ClearWithoutKeysLib ==
  [][ impl = "lib" /\ Starts(1, "clear") /\ StatusDeniesKeys
        => task'[1].pc = "done" /\ task'[1].calls = {} /\ memoryCache' = MapClear ]_vars

\* A clear that scanned the store and removed what it found, and one that
\* issued no persistent call.
FullClear(r) == r.op = "clear" /\ "KEYS" \in r.calls /\ r.err = "none"
MemoryOnlyClear(r) == r.op = "clear" /\ r.calls = {}
\* C12: a full clear and a memory-only clear never return the same value.
C12_ClearResultsDiffer ==
  /\ Done(1, "clear")
  /\ \/ FullClear(task[1]) /\ MemoryOnlyClear(task[1].prev)
     \/ MemoryOnlyClear(task[1]) /\ FullClear(task[1].prev)
  => task[1].ret # task[1].prev.ret

\* The stored status: the flags of "lib"; "p9" keeps only redisAvailable.
StatusAvailable == IF impl = "lib" THEN isRedisAvailable ELSE redisAvailable
StatusReadOnly == impl = "lib" /\ isReadOnly
StatusGetAllowed == impl = "p9" \/ getCommandAllowed
\* C13: delete(k) removes k from the Map, issues DEL exactly when the status
\* is available and not read-only, and returns true, also when DEL throws.
C13_DeleteBestEffort ==
  /\ [][ Starts(1, "delete")
           => /\ memoryCache'[task'[1].key] = Absent
              /\ ("DEL" \in task'[1].calls) = (StatusAvailable /\ ~StatusReadOnly) ]_vars
  /\ [](Done(1, "delete") => task[1].ret = JBool(TRUE))
\* Everything of it but the result after a DEL that threw.
C13_ExceptResult ==
  /\ [][ Starts(1, "delete")
           => /\ memoryCache'[task'[1].key] = Absent
              /\ ("DEL" \in task'[1].calls) = (StatusAvailable /\ ~StatusReadOnly) ]_vars
  /\ [](Done(1, "delete") /\ task[1].err = "none" => task[1].ret = JBool(TRUE))

\* C14: has(k) returns true with no persistent call when k is in the Map;
\* otherwise it issues EXISTS only when the store is available and reads are
\* permitted, and returns false in every other case and when EXISTS throws.
C14_HasShortCircuit ==
  /\ [][ Starts(1, "has")
           => /\ MapHas(task'[1].key)
                   => Done(1, "has")' /\ task'[1].ret = JBool(TRUE) /\ task'[1].calls = {}
              /\ ~MapHas(task'[1].key) /\ ~(StatusAvailable /\ StatusGetAllowed)
                   => Done(1, "has")' /\ task'[1].ret = JBool(FALSE) /\ task'[1].calls = {} ]_vars
  /\ [](Done(1, "has") /\ task[1].err # "none" => task[1].ret = JBool(FALSE))
\* The same with "permits" read as "available" alone.
C14_AvailableAlone ==
  /\ [][ Starts(1, "has")
           => /\ MapHas(task'[1].key)
                   => Done(1, "has")' /\ task'[1].ret = JBool(TRUE) /\ task'[1].calls = {}
              /\ ~MapHas(task'[1].key) /\ ~StatusAvailable
                   => Done(1, "has")' /\ task'[1].ret = JBool(FALSE) /\ task'[1].calls = {} ]_vars
  /\ [](Done(1, "has") /\ task[1].err # "none" => task[1].ret = JBool(FALSE))

\* An unavailable store grants no capability.
NoCapability(available, readOnly, keysAllowed, getAllowed) ==
  ~available => readOnly /\ ~keysAllowed /\ ~getAllowed
\* C15: in every state, and in every status getStatus() returns, available =
\* false implies readOnly = true and both command flags false.
C15_UnavailableGrantsNothing ==
  /\ impl = "lib" =>
       NoCapability(isRedisAvailable, isReadOnly, keysCommandAllowed, getCommandAllowed)
  /\ \A t \in TaskIds : Done(t, "getStatus") =>
       NoCapability(task[t].st.available, task[t].st.readOnly,
                    task[t].st.keysCommandAllowed, task[t].st.getCommandAllowed)

ProbePcs == {"p_get", "p_exists", "p_keys", "p_set", "p_del"}
\* C16: a probe request less than one interval after the last probe started,
\* also while that probe awaits an answer, issues no call of the probe and
\* returns the stored status; a probe starts only when an interval has
\* passed, and notes its start.
C16_OneProbePerInterval ==
  [][ /\ Starts(1, "getStatus") /\ now - lastConnectionCheck < connectionCheckInterval
        => /\ task'[1].pc \notin ProbePcs
           /\ task'[1].calls = IF task'[1].pc = "count" THEN {"KEYS"} ELSE {}
           /\ UNCHANGED <<flagVars, lastConnectionCheck>>
           /\ task'[1].pc = "done" =>
                /\ task'[1].st.available = isRedisAvailable
                /\ task'[1].st.readOnly = isReadOnly
                /\ task'[1].st.keysCommandAllowed = keysCommandAllowed
                /\ task'[1].st.getCommandAllowed = getCommandAllowed
      /\ \A t \in TaskIds :
           task[t].pc \notin ProbePcs /\ task'[t].pc \in ProbePcs
             => /\ now - lastConnectionCheck >= connectionCheckInterval
                /\ lastConnectionCheck' = now ]_vars
C16_Witness ==
  /\ Done(1, "getStatus") /\ "GET" \notin task[1].calls
  /\ task[0].pc \in ProbePcs /\ now - lastConnectionCheck < connectionCheckInterval

\* C17: a get that misses the Map when the probe interval has elapsed since
\* the last probe runs a probe before it decides whether to read the store.
C17_GetRefreshesStatus ==
  [][ /\ Starts(1, "get") /\ ~MapHas(task'[1].key)
      /\ now - lastConnectionCheck >= connectionCheckInterval
      => lastConnectionCheck' = now /\ task'[1].pc \in ProbePcs ]_vars

\* C18: set with the empty key throws and stores nothing in either tier, and
\* set with a value that cannot be serialized does not report success.
C18_InputErrors ==
  /\ task[1].op = "set" /\ task[1].key = EmptyKey => task[1].pc = "threw"
  /\ memoryCache[EmptyKey] = Absent /\ ~store[getFullKey(EmptyKey)].has
  /\ Done(1, "set") /\ task[1].val = JCyclic => task[1].ret # JBool(TRUE)
\* Its second half alone.
C18_Unserializable ==
  Done(1, "set") /\ task[1].val = JCyclic => task[1].ret # JBool(TRUE)

\* The step in which caller t's call of op returns.
Returns(t, op) == task'[t] # task[t] /\ task'[t].op = op /\ task'[t].pc = "done"
\* The status lets getStatus() count the store's keys.
StatusAllowsCount ==
  IF impl = "lib" THEN isRedisAvailable /\ keysCommandAllowed ELSE redisAvailable
C20_ClearIdempotent ==
  /\ task[1].op = "clear" => task[1].pc # "threw" /\ MapSize = 0
  /\ Done(1, "clear") /\ task[1].prev.op = "clear" /\ tier = "ok" => task[1].ret = JBool(TRUE)
  /\ serverCall.op = "clear" => CacheSize = 0
C20_Witness ==
  /\ Done(1, "clear") /\ task[1].prev.op = "clear" /\ task[1].prev.ret = JBool(TRUE)
  /\ impl = "lib" /\ MapSize = 0 /\ serverCall.op = "clear"

\* The request in hand carries the configured admin key.
ValidCredentials == adminApiKey # "unset" /\ route.authorization = Bearer(adminApiKey)
\* C21: an endpoint calls redisCache.clear only for a request with valid admin
\* credentials; with no admin key configured it never does.
C21_ClearNeedsAuthorization ==
  task[2].op = "clear" => ValidCredentials
\* The same, of cache/clear with ADMIN_API_KEY configured.
C21_CacheClearConfigured ==
  task[2].op = "clear" /\ route.name = "cache/clear" /\ adminApiKey # "unset"
    => ValidCredentials

\* This step is caller t's probe receiving the answer it awaited at pc.
ProbeStep(t, pc) == InProbe(t, pc) /\ task'[t] # task[t]
\* The probes after the sentinel read.
LaterProbes == {"p_exists", "p_keys", "p_set", "p_del"}
\* C22: in a probe, a sentinel read that fails with a connectivity or timeout
\* error sets available, keysCommandAllowed and getCommandAllowed to false, and
\* the remaining probes are not attempted.
C22_ReadTimeoutEndsProbe ==
  [][\A t \in TaskIds :
       ProbeStep(t, "p_get") /\ tier = "timeout"
         => /\ ~isRedisAvailable' /\ ~keysCommandAllowed' /\ ~getCommandAllowed'
            /\ task'[t].pc \notin LaterProbes]_vars

\* C23: in a probe, a sentinel read rejected with a permission error sets
\* getCommandAllowed and available to false, and the KEYS probe and the write
\* test are attempted only when the read probe left available = true.
C23_DeniedReadSkipsProbes ==
  /\ [][\A t \in TaskIds :
          ProbeStep(t, "p_get") /\ tier = "noget"
            => ~getCommandAllowed' /\ ~isRedisAvailable']_vars
  /\ [](\A t \in TaskIds :
          InProbe(t, task[t].pc) /\ task[t].pc \in {"p_keys", "p_set", "p_del"}
            => isRedisAvailable)
\* The first half of C23: the flags after a denied sentinel read.
C23_DeniedReadFlags ==
  [][\A t \in TaskIds :
       ProbeStep(t, "p_get") /\ tier = "noget"
         => ~getCommandAllowed' /\ ~isRedisAvailable']_vars

\* C24: in a probe, after the KEYS attempt keysCommandAllowed is true only if
\* the enumeration succeeded; a permission failure and any other failure both
\* leave it false.
C24_KeysFlagAfterProbe ==
  [][\A t \in TaskIds :
       ProbeStep(t, "p_keys") /\ tier \in {"nokeys", "timeout"}
         => ~keysCommandAllowed']_vars
\* The same, of a permission failure alone.
C24_KeysDenied ==
  [][\A t \in TaskIds :
       ProbeStep(t, "p_keys") /\ tier = "nokeys" => ~keysCommandAllowed']_vars

\* This step ends the write test of caller t's probe.
WriteTestEnds(t) ==
  /\ InProbe(t, "p_set") \/ InProbe(t, "p_del")
  /\ task'[t] # task[t] /\ task'[t].pc \notin {"p_set", "p_del"}
\* C25: in a probe that reaches the write test, readOnly is false afterwards
\* if and only if both the sentinel write and the sentinel delete succeeded
\* (the delete was awaited and removed the sentinel key); every error leaves
\* readOnly true.
C25_WriteTestFailsClosed ==
  [][WriteTestEnds(0)
       => (isReadOnly' = FALSE
             <=> task[0].pc = "p_del" /\ store[testWriteKey].has /\ ~store'[testWriteKey].has)]_vars
\* The probe ended with the sentinel written and its delete failed.
C25_Witness ==
  /\ impl = "lib" /\ Done(0, "probe") /\ "DEL" \in task[0].calls
  /\ store[testWriteKey].has /\ isReadOnly

\* Caller t's getStatus() has returned, having run a probe, with the store
\* fully permitted.
Recovered(t) == Done(t, "getStatus") /\ "GET" \in task[t].calls /\ tier = "ok"
\* A status with nothing downgraded.
FullStatus(st) ==
  st.available /\ ~st.readOnly /\ st.keysCommandAllowed /\ st.getCommandAllowed
\* C26: once the store is and stays reachable and fully permitted, the next
\* getStatus() called after the probe interval has elapsed returns available =
\* true, readOnly = false, keysCommandAllowed = true and getCommandAllowed =
\* true, and the set and get calls after it use the persistent tier again.
C26_Recovery ==
  /\ [](Recovered(1) => FullStatus(task[1].st))
  /\ [][Recovered(1) /\ Starts(1, "set") => task'[1].pc = "set"]_vars
  /\ [][Recovered(1) /\ Starts(1, "get") /\ ~MapHas(task'[1].key) => task'[1].pc = "get"]_vars
\* A set of caller 1 was denied, which made the status read-only; then its
\* getStatus() probed the recovered store.
C26_Witness ==
  /\ Recovered(1) /\ FullStatus(task[1].st)
  /\ task[1].prev.op = "set" /\ task[1].prev.err = "noperm"

\* This step is caller t's get receiving the store's answer for a key the
\* store holds.
PersistentHit(t) ==
  /\ Returns(t, "get") /\ task[t].pc = "get" /\ task'[t].err = "none"
  /\ Live(getFullKey(task[t].key))
\* C27: get(k) issues a persistent read if and only if k is absent from the
\* Map and the status is available with reads permitted; a hit in the Map
\* issues no persistent call; after a persistent hit the value is in the Map,
\* so that the next get(k) is served from it.
C27_GetReadsOnMiss ==
  /\ [][Starts(1, "get")
          => /\ task'[1].pc = "get"
                  <=> ~MapHas(task'[1].key) /\ StatusAvailable /\ StatusGetAllowed
             /\ MapHas(task'[1].key) => task'[1].calls = {}]_vars
  /\ [][PersistentHit(1) => memoryCache'[task[1].key] # Absent]_vars
\* The first half of C27: when get issues its persistent read.
C27_ReadIffMiss ==
  [][Starts(1, "get")
       => /\ task'[1].pc = "get"
               <=> ~MapHas(task'[1].key) /\ StatusAvailable /\ StatusGetAllowed
          /\ MapHas(task'[1].key) => task'[1].calls = {}]_vars
\* The back-fill of C27 for the values JavaScript takes as true.
C27_BackfillTruthy ==
  [][PersistentHit(1) /\ Truthy(store[getFullKey(task[1].key)].src)
       => memoryCache'[task[1].key] # Absent]_vars

\* The Map holds v under key after this step.
LocalHoldsNext(key, v) == memoryCache'[key] = IF impl = "lib" THEN v ELSE safeJSONStringify(v)
\* JSON.stringify(v) returns ("lib" tests it before redis.set; "p9" stores
\* String(v) when it throws).
Serializable(v) == impl = "p9" \/ v.t # "cyclic"
\* C28: within one set call the Map is written before the persistent write is
\* attempted (the step that writes the Map leaves the store as it is), and the
\* write is attempted if and only if the status at that moment is available
\* and not read-only.
C28_AttemptIffWritable ==
  [][Starts(1, "set")
       => /\ LocalHoldsNext(task'[1].key, task'[1].val) /\ store' = store
          /\ task'[1].pc = "set" <=> StatusAvailable /\ ~StatusReadOnly]_vars
\* The same, of the values JSON.stringify accepts.
C28_MapBeforeStore ==
  [][Starts(1, "set")
       => /\ LocalHoldsNext(task'[1].key, task'[1].val) /\ store' = store
          /\ task'[1].pc = "set"
               <=> StatusAvailable /\ ~StatusReadOnly /\ Serializable(task'[1].val)]_vars

\* The pattern clear call r hands to redis.keys.
FullPattern(r) == IF r.key # "" THEN getFullKey(r.key) ELSE prefix \o "*"
\* The status permits KEYS ("p9" keeps no such flag).
StatusKeysAllowed == impl = "p9" \/ keysCommandAllowed
\* This step is caller t's clear receiving the answer it awaited at pc.
ClearStep(t, pc) == task[t].op = "clear" /\ task[t].pc = pc /\ task'[t] # task[t]
\* C29: clear(pattern) empties the whole Map whatever the pattern; with the
\* store available, writable and KEYS permitted it enumerates the keys
\* matching prefix + pattern (prefix + "*" without pattern) and deletes
\* exactly the enumerated keys; every key outside the match stays as it is.
C29_ClearDeletesEnumerated ==
  /\ [][Starts(1, "clear")
          => /\ memoryCache' = MapClear /\ store' = store
             /\ StatusAvailable /\ ~StatusReadOnly /\ StatusKeysAllowed
                  => task'[1].pc = "keys"]_vars
  /\ [][ClearStep(1, "keys") /\ task'[1].err = "none"
          => /\ store' = store
             /\ IF RedisKeys(FullPattern(task[1])) = {} THEN task'[1].pc = "done"
                ELSE /\ task'[1].pc = "cleardel"
                     /\ task'[1].found = RedisKeys(FullPattern(task[1]))]_vars
  /\ [][ClearStep(1, "cleardel")
          => \A fk \in StoreKeys :
               store'[fk] = IF fk \in task[1].found /\ task'[1].err = "none"
                            THEN NoEntry ELSE store[fk]]_vars
  /\ [](task[1].op = "clear"
          => \A fk \in task[1].found : GlobMatch(FullPattern(task[1]), fk))
\* clear("a") has deleted the key it enumerated and left the probe's sentinel
\* key, which its pattern does not match.
C29_Witness ==
  /\ Done(1, "clear") /\ task[1].key = "a" /\ task[1].found = {getFullKey("a")}
  /\ task[1].err = "none"
  /\ ~store[getFullKey("a")].has /\ store[testWriteKey].has

DataOps == {"get", "set", "has", "delete"}
\* This step is caller t's call of op receiving the answer of the store,
\* without an error.
Answered(t, op) ==
  /\ task[t].op = op /\ task[t].pc \notin {"idle", "done", "verify"}
  /\ task'[t] # task[t] /\ task'[t].err = "none"
\* The store holds an entry under prefix + k.
Holds(st, k) == \E fk \in StoreKeys : fk = prefix \o k /\ st[fk].has
\* C30: every persistent call of get, set, has and delete for key k addresses
\* prefix + k and nothing else, the Map is addressed by k itself, and no data
\* operation touches a key of the store outside the prefix namespace.
C30_KeysAreNamespaced ==
  /\ [][task'[1] # task[1] /\ task'[1].op \in DataOps
          => /\ \A fk \in StoreKeys : fk # prefix \o task'[1].key => store'[fk] = store[fk]
             /\ \A k \in MapKeys : k # task'[1].key => memoryCache'[k] = memoryCache[k]]_vars
  /\ [][Starts(1, "set") => memoryCache'[task'[1].key] # Absent]_vars
  /\ [][Answered(1, "set") => Holds(store', task[1].key)]_vars
  /\ [][Answered(1, "delete") => ~Holds(store', task[1].key)]_vars
  /\ [][Answered(1, "has") => (task'[1].ret = JBool(TRUE) <=> Holds(store, task[1].key))]_vars
  /\ [][Answered(1, "get") /\ task'[1].ret # JNull => Holds(store, task[1].key)]_vars
  /\ [](\A fk \in BareKeys : ~store[fk].has)
\* get("a") was answered from the entry under prefix + "a" while the store
\* holds nothing under "a".
C30_Witness ==
  /\ Done(1, "get") /\ "GET" \in task[1].calls /\ task[1].ret # JNull
  /\ task[1].key = "a" /\ store[getFullKey("a")].has /\ ~store["a"].has

\* The store holds, under prefix + k, the entry a set(k, ...) wrote.
ApplicationEntry(k) ==
  /\ store[getFullKey(k)].has
  /\ lastSet[k] # Absent /\ store[getFullKey(k)].src = lastSet[k]
\* C31: a probe never creates, overwrites or deletes an application entry of
\* the store: for every key k a caller stored through set, no step of a probe
\* changes the entry under prefix + k.
C31_ProbeLeavesEntries ==
  [][\A t \in TaskIds, k \in MapDomain :
       InProbe(t, task[t].pc) /\ task'[t] # task[t] /\ ApplicationEntry(k)
         => store'[getFullKey(k)] = store[getFullKey(k)]]_vars
\* The same, of the keys other than the name of the write sentinel.
C31_OtherKeys ==
  [][\A t \in TaskIds, k \in MapKeys :
       InProbe(t, task[t].pc) /\ task'[t] # task[t] /\ ApplicationEntry(k)
         => store'[getFullKey(k)] = store[getFullKey(k)]]_vars

\* This step is a call of ServerCache.op, of ClientCache.op.
ServerCalled(op) == serverCall' # serverCall /\ serverCall'.op = op
ClientCalled(op) == clientCall' # clientCall /\ clientCall'.op = op
\* The item under fullKey is an entry ClientCache.set wrote, and its fields.
ItemValue(fullKey) == JSONparse(localStorage[fullKey].text).v
IsEntry(fullKey) ==
  /\ ItemFound(fullKey) /\ JSONparse(localStorage[fullKey].text).ok
  /\ Field(ItemValue(fullKey), "expiresAt").t = "num"
  /\ Field(ItemValue(fullKey), "timestamp").t = "num"
ItemExpiresAt(fullKey) == NumValue(Field(ItemValue(fullKey), "expiresAt").c)
ItemTimestamp(fullKey) == NumValue(Field(ItemValue(fullKey), "timestamp").c)
\* C32: in ServerCache and ClientCache an entry is live exactly when
\* now <= expiresAt: get returns the stored data of a live entry, and null for
\* an expired one, which it removes; has returns true exactly for a live
\* entry, so get and has agree.
C32_LiveUntilExpiresAt ==
  /\ [][ServerCalled("get")
          => LET e == cache[serverCall'.key]
             IN IF e.has /\ now <= e.expiresAt
                THEN serverCall'.ret = e.data /\ cache' = cache
                ELSE serverCall'.ret = JNull /\ ~cache'[serverCall'.key].has]_vars
  /\ [][ServerCalled("has")
          => LET e == cache[serverCall'.key]
             IN serverCall'.ret = JBool(e.has /\ now <= e.expiresAt)]_vars
  /\ [][ClientCalled("get") /\ isStorageAvailable
          => LET fk == getFullKey(clientCall'.key)
             IN IF IsEntry(fk) /\ now <= ItemExpiresAt(fk)
                THEN /\ clientCall'.ret = Field(ItemValue(fk), "data")
                     /\ localStorage' = localStorage
                ELSE clientCall'.ret = JNull /\ (IsEntry(fk) => ~localStorage'[fk].has)]_vars
  /\ [][ClientCalled("has") /\ isStorageAvailable
          => LET fk == getFullKey(clientCall'.key)
             IN clientCall'.ret = JBool(IsEntry(fk) /\ now <= ItemExpiresAt(fk))]_vars
\* has answered true, for both stores, at the very instant expiresAt.
C32_Witness ==
  /\ serverCall.op = "has" /\ serverCall.ret = JBool(TRUE)
  /\ cache[serverCall.key].has /\ now = cache[serverCall.key].expiresAt
  /\ clientCall.op = "get" /\ clientCall.ret = VNum7
  /\ IsEntry(getFullKey(clientCall.key)) /\ now = ItemExpiresAt(getFullKey(clientCall.key))

\* C33: every entry stored by ServerCache.set or ClientCache.set has
\* expiresAt > timestamp, whatever ttl was passed, zero and negative included.
C33_ExpiresAfterCreated ==
  /\ \A k \in Keys : cache[k].has => cache[k].expiresAt > cache[k].timestamp
  /\ \A fk \in ClientKeys : IsEntry(fk) => ItemExpiresAt(fk) > ItemTimestamp(fk)

\* The store holds under fullKey text that no set encoded and that JSON.parse
\* rejects.
Malformed(fullKey) ==
  Live(fullKey) /\ store[fullKey].src = Absent /\ ~JSONparse(store[fullKey].text).ok
\* C34: stored data that cannot be decoded is a miss: get returns null, never
\* the raw text, and puts nothing in the Map; ClientCache also removes the
\* item from localStorage.
C34_MalformedIsMiss ==
  /\ [][Returns(1, "get") /\ task[1].pc = "get" /\ Malformed(getFullKey(task[1].key))
          => task'[1].ret = JNull /\ memoryCache'[task[1].key] = Absent]_vars
  /\ [][ClientCalled("get") /\ ItemFound(getFullKey(clientCall'.key))
          /\ ~JSONparse(localStorage[getFullKey(clientCall'.key)].text).ok
          => clientCall'.ret = JNull /\ ~localStorage'[getFullKey(clientCall'.key)].has]_vars
\* The same, of ClientCache alone.
C34_ClientRemoves ==
  [][ClientCalled("get") /\ ItemFound(getFullKey(clientCall'.key))
       /\ ~JSONparse(localStorage[getFullKey(clientCall'.key)].text).ok
       => clientCall'.ret = JNull /\ ~localStorage'[getFullKey(clientCall'.key)].has]_vars

\* Caller 1's call works on the Map alone: no command was issued, set, delete
\* and clear returned true, get and has answered from the Map, getStatus
\* reports available = false and the size of the Map.
LocalOnly ==
  /\ task[1].calls = {}
  /\ Done(1, "set") \/ Done(1, "delete") \/ Done(1, "clear") => task[1].ret = JBool(TRUE)
  /\ Done(1, "getStatus") => ~task[1].st.available
\* C35: with no persistent store configured every operation works on the Map
\* alone and issues no persistent call.
C35_UnconfiguredIsLocal ==
  /\ [](tier = "unconfigured" => LocalOnly)
  /\ [][tier = "unconfigured" /\ Returns(1, "get")
          => task'[1].ret = IF MapHas(task'[1].key)
                            THEN (IF impl = "lib" THEN memoryCache[task'[1].key]
                                  ELSE safeJSONParse(memoryCache[task'[1].key]))
                            ELSE JNull]_vars
  /\ [][tier = "unconfigured" /\ Returns(1, "has")
          => task'[1].ret = JBool(MapHas(task'[1].key))]_vars
  /\ [][tier = "unconfigured" /\ Returns(1, "getStatus")
          => task'[1].st.memoryKeysCount = MapSize]_vars
\* The same, of the class of part_009, which keeps no client without
\* credentials.
C35_UnconfiguredP9 ==
  /\ [](impl = "p9" /\ tier = "unconfigured" => LocalOnly)
  /\ [][impl = "p9" /\ tier = "unconfigured" /\ Returns(1, "get")
          => task'[1].ret = IF MapHas(task'[1].key)
                            THEN safeJSONParse(memoryCache[task'[1].key]) ELSE JNull]_vars
  /\ [][impl = "p9" /\ tier = "unconfigured" /\ Returns(1, "has")
          => task'[1].ret = JBool(MapHas(task'[1].key))]_vars
  /\ [][impl = "p9" /\ tier = "unconfigured" /\ Returns(1, "getStatus")
          => task'[1].st.memoryKeysCount = MapSize]_vars

\* C36: when an administrative clear request is answered with the read-only
\* refusal (403), the Map has been cleared: it is empty when the response is
\* returned.
C36_RefusalClearsMap ==
  [][route' # route /\ route'.pc = "done" /\ route'.code = 403
       => \A k \in MapDomain : memoryCache'[k] = Absent]_vars

\* C37: a key removed by delete(k) or clear() is not put back in the Map by a
\* get(k) that started before the removal: while caller 1's latest call is the
\* removal, the get of caller 2, which started before it, leaves the Map
\* without k when it returns.
C37_NoResurrection ==
  [][task[1].op \in Removals /\ Returns(2, "get")
       /\ (task[1].op = "delete" => task[1].key = task[2].key)
       => memoryCache'[task[2].key] = Absent]_vars

\* A probe of caller t awaits an answer of the store.
ProbeInProgress(t) == InProbe(t, task[t].pc) /\ task[t].pc \in ProbePcs
\* C38: getStatus() never reports flags taken from a probe that is still in
\* progress: when it returns, no probe (the constructor's for instance) is
\* awaiting an answer.
C38_StatusOfCompletedProbe ==
  [][impl = "lib" /\ Returns(1, "getStatus") => ~ProbeInProgress(0)]_vars

\* This step is caller t's set receiving the answer it awaited at pc.
SetStep(t, pc) == impl = "lib" /\ task[t].op = "set" /\ task[t].pc = pc /\ task'[t] # task[t]
\* C39: set turns readOnly to true only when the persistent write itself was
\* rejected by a permission or read-only error; a fault of the verification
\* read never changes readOnly, and a connectivity fault changes only
\* available.
C39_DowngradeOnlyOnWrite ==
  /\ [][SetStep(1, "set") /\ isReadOnly' # isReadOnly
          => isReadOnly' /\ IsWritePermissionError(task'[1].err)]_vars
  /\ [][SetStep(1, "verify") => isReadOnly' = isReadOnly]_vars
  /\ [][(SetStep(1, "set") \/ SetStep(1, "verify")) /\ task'[1].err = "conn"
          => ~isRedisAvailable'
             /\ <<isReadOnly, keysCommandAllowed, getCommandAllowed>>'
                  = <<isReadOnly, keysCommandAllowed, getCommandAllowed>>]_vars
\* The same without the verification read: the answer of redis.set alone.
C39_WriteFaults ==
  /\ [][SetStep(1, "set") /\ isReadOnly' # isReadOnly
          => isReadOnly' /\ IsWritePermissionError(task'[1].err)]_vars
  /\ [][(SetStep(1, "set") \/ SetStep(1, "verify")) /\ task'[1].err = "conn"
          => ~isRedisAvailable'
             /\ <<isReadOnly, keysCommandAllowed, getCommandAllowed>>'
                  = <<isReadOnly, keysCommandAllowed, getCommandAllowed>>]_vars

\* Caller t's call returns now, and its call before was the same read of the same key.
RepeatedRead(t, op) ==
  Returns(t, op) /\ task'[t].prev.op = op /\ task'[t].prev.key = task'[t].key
\* C40: each instance owns its Local Tier: set, delete and clear on instance A
\* never change what get or has of instance B return from B's Local Tier; B,
\* which writes nothing, reads the same for a key each time.
C40_LocalTierIsOwned ==
  /\ [][RepeatedRead(2, "get") => task'[2].ret = task'[2].prev.ret]_vars
  /\ [][RepeatedRead(2, "has") => task'[2].ret = task'[2].prev.ret]_vars
====
